---- MODULE Spec2Model ----
(***************************************************************************)
(* Request dispatch of sentry-sensei-mcp: the JSON-RPC method router, the  *)
(* credential resolver and the tool handlers' error paths, in the three    *)
(* deployments the repository carries:                                     *)
(*   "processor"  processMCPRequest (CommonJS) behind the Netlify function *)
(*   "esm"        processMCPRequest (ES module) behind netlify/functions/  *)
(*                mcp.cjs                                                  *)
(*   "server"     MCPServer.processRequest with stored OAuth tokens        *)
(***************************************************************************)
EXTENDS Integers, Sequences, FiniteSets, TLC

(***************************************************************************)
(* JSON values of an envelope field: undefined (absent), null, a number or *)
(* a string, with JavaScript's truthiness.                                 *)
(***************************************************************************)
JUndef == [t |-> "undefined", n |-> 0, s |-> ""]

JNull == [t |-> "null", n |-> 0, s |-> ""]

JNum(k) == [t |-> "number", n |-> k, s |-> ""]

JStr(x) == [t |-> "string", n |-> 0, s |-> x]

Truthy(v) ==
  CASE v.t = "number" -> v.n # 0
    [] v.t = "string" -> v.s # ""
    [] OTHER -> FALSE

\* JavaScript's  a || b
Or(a, b) == IF Truthy(a) THEN a ELSE b

(***************************************************************************)
(* JSON-RPC error codes (ErrorCode of the MCP SDK, and the literals of the *)
(* dispatcher).                                                            *)
(***************************************************************************)
InvalidRequest == -32600

MethodNotFound == -32601

InvalidParams == -32602

InternalError == -32603

(***************************************************************************)
(* Bounds of the model.                                                    *)
(***************************************************************************)
\* at most this many credential headers on one request
MaxHdr == 1

\* at most this many credential environment variables set in the process
MaxEnv == 1

(***************************************************************************)
(* Credentials: six fields, each resolved from a request header, an        *)
(* environment variable or a stored OAuth token.  A value is a string; ""  *)
(* stands for undefined, null and the empty string alike (all falsy).      *)
(***************************************************************************)
Fields ==
  {"sentry.host", "sentry.organization", "sentry.token",
   "jira.domain", "jira.token", "jira.email"}

EnvVars ==
  {"SENTRY_HOST", "SENTRY_ORG", "SENTRY_ORGANIZATION", "SENTRY_TOKEN",
   "ATLASSIAN_DOMAIN", "JIRA_TOKEN", "JIRA_EMAIL",
   "JIRA_ACCESS_TOKEN", "JIRA_USER_EMAIL"}

Services == {"sentry", "atlassian"}

\* JavaScript's  a || b  on credential strings
OrS(a, b) == IF a # "" THEN a ELSE b

\* the header maps of a request: a non-empty value "h" on at most MaxHdr fields
HeaderMaps ==
  {[f \in Fields |-> IF f \in S THEN "h" ELSE ""] :
     S \in {T \in SUBSET Fields : Cardinality(T) <= MaxHdr}}

\* the process environments: a variable that is set holds its own name as value
EnvMaps ==
  {[v \in EnvVars |-> IF v \in S THEN v ELSE ""] :
     S \in {T \in SUBSET EnvVars : Cardinality(T) <= MaxEnv}}

NoHeaders == [f \in Fields |-> ""]

NoEnv == [v \in EnvVars |-> ""]

(***************************************************************************)
(* The three credential resolvers.                                         *)
(***************************************************************************)
\* how the header names of a request are spelled: Node's HTTP parser and the
\* Netlify runtime hand over lower-case names, a hand-built request any
HeaderCases == {"lower", "upper", "mixed"}

\* headers['x-sentry-token']: the value under the lower-case name
lowerCaseHeader(r) == [f \in Fields |-> IF r.hcase = "lower" THEN r.headers[f] ELSE ""]

\* getHeader: headers[lowerName] || headers[name] || headers[name.toUpperCase()]
getHeader(r) ==
  [f \in Fields |-> IF r.hcase \in {"lower", "upper"} THEN r.headers[f] ELSE ""]

\* the CommonJS resolver with the two sources swapped: environment variable,
\* else header
extractCredentialsEnvFirst(r, e) ==
  LET headers == lowerCaseHeader(r) IN
  [f \in Fields |->
     CASE f = "sentry.host" -> OrS(e["SENTRY_HOST"], headers[f])
       [] f = "sentry.organization" ->
            OrS(OrS(e["SENTRY_ORG"], e["SENTRY_ORGANIZATION"]), headers[f])
       [] f = "sentry.token" -> OrS(e["SENTRY_TOKEN"], headers[f])
       [] f = "jira.domain" -> OrS(e["ATLASSIAN_DOMAIN"], headers[f])
       [] f = "jira.token" -> OrS(e["JIRA_TOKEN"], headers[f])
       [] f = "jira.email" -> OrS(e["JIRA_EMAIL"], headers[f])]

\* shared/credentials (CommonJS): header, else environment variable
extractCredentials(r, e) ==
  LET headers == lowerCaseHeader(r) IN
  [f \in Fields |->
     CASE f = "sentry.host" -> OrS(headers[f], e["SENTRY_HOST"])
       [] f = "sentry.organization" ->
            OrS(headers[f], OrS(e["SENTRY_ORG"], e["SENTRY_ORGANIZATION"]))
       [] f = "sentry.token" -> OrS(headers[f], e["SENTRY_TOKEN"])
       [] f = "jira.domain" -> OrS(headers[f], e["ATLASSIAN_DOMAIN"])
       [] f = "jira.token" -> OrS(headers[f], e["JIRA_TOKEN"])
       [] f = "jira.email" -> OrS(headers[f], e["JIRA_EMAIL"])]

\* shared/handlers.js (ES module): header, else environment variable, and a
\* default host
extractCredentialsEsm(r, e) ==
  LET headers == getHeader(r) IN
  [f \in Fields |->
     CASE f = "sentry.host" ->
            OrS(headers[f], OrS(e["SENTRY_HOST"], "https://sentry.io"))
       [] f = "sentry.organization" -> OrS(headers[f], e["SENTRY_ORGANIZATION"])
       [] f = "sentry.token" -> OrS(headers[f], e["SENTRY_TOKEN"])
       [] f = "jira.domain" -> OrS(headers[f], e["ATLASSIAN_DOMAIN"])
       [] f = "jira.token" -> OrS(headers[f], e["JIRA_ACCESS_TOKEN"])
       [] f = "jira.email" -> OrS(headers[f], e["JIRA_USER_EMAIL"])]

\* shared/credentials (OAuth): stored tokens only; st is the set of services
\* with a stored token.  jira.cloudId is set with jira.domain.
extractCredentialsOAuth(st) ==
  [f \in Fields |->
     CASE f \in {"sentry.host", "sentry.organization", "sentry.token"} ->
            IF "sentry" \in st THEN "s" ELSE ""
       [] f \in {"jira.domain", "jira.token"} ->
            IF "atlassian" \in st THEN "s" ELSE ""
       [] f = "jira.email" ->
            IF "atlassian" \in st THEN "oauth-user@atlassian.local" ELSE ""]

(***************************************************************************)
(* The tool catalog.                                                       *)
(***************************************************************************)
TOOL_DEFINITIONS ==
  {"get_sentry_organizations", "get_sentry_projects", "get_sentry_issues",
   "get_sentry_issue_details", "get_jira_ticket_details", "get_current_datetime"}

ENABLED_TOOLS == TOOL_DEFINITIONS

SentryNamed == {n \in TOOL_DEFINITIONS : n \notin {"get_jira_ticket_details", "get_current_datetime"}}

JiraNamed == {"get_jira_ticket_details"}

(***************************************************************************)
(* What a tool handler did: returned a value (a ToolCallResult or a bare   *)
(* string), threw an McpError, or threw another Error.  message is the     *)
(* error message, or the result text, as its parts; steps are the steps    *)
(* that ran.                                                               *)
(***************************************************************************)
NoOutcome == [kind |-> "none", code |-> 0, message |-> <<>>, shape |-> "", steps |-> {}]

Returned(shape, text, steps) ==
  [kind |-> "return", code |-> 0, message |-> text, shape |-> shape, steps |-> steps]

ThrewMcp(code, msg, steps) ==
  [kind |-> "McpError", code |-> code, message |-> msg, shape |-> "", steps |-> steps]

ThrewError(msg, steps) ==
  [kind |-> "Error", code |-> 0, message |-> msg, shape |-> "", steps |-> steps]

\* what the upstream service does with one call
UpstreamOutcomes == {"ok", "http404", "http500", "network"}

\* the shapes of params.arguments
ArgShapes == {"absent", "empty", "ticketKey", "badTimezone"}

\* SentryService.fetchJson: the parsed body, or an Error naming the failure
fetchJson(up) ==
  IF up = "ok" THEN Returned("json", <<"organizations">>, {"handler", "upstream"})
  ELSE ThrewError(<<"Fetching organizations: ", up>>, {"handler", "upstream"})

\* SentryHandler.createSentryService: the token, else SENTRY_TOKEN, else an
\* invalid-params error naming what to provide
createSentryService(cred, e) ==
  IF OrS(cred["sentry.token"], e["SENTRY_TOKEN"]) = ""
  THEN ThrewMcp(InvalidParams,
                <<"Sentry API token is required. Provide it as a parameter, pass --token argument, or set SENTRY_TOKEN environment variable.">>,
                {"handler"})
  ELSE Returned("service", <<>>, {"handler"})

\* ErrorHandler.handleError: validation and API errors and unexpected errors
\* become a text (a bare string), an McpError is thrown again
handleError(o) ==
  IF o.kind = "McpError" THEN o
  ELSE Returned("string",
                <<"An unexpected error occurred in ">> \o o.message,
                o.steps)

\* schemas.validateSchema: the arguments must be an object
validateSchema(args) ==
  IF args = "absent"
  THEN ThrewError(<<"validation failed">>, {"handler"})
  ELSE Returned("args", <<>>, {"handler"})

\* SentryHandler.getOrganizations (CommonJS): every failure goes through
\* handleError
getOrganizations(cred, e, args, up) ==
  IF validateSchema(args).kind # "return" THEN handleError(validateSchema(args))
  ELSE IF createSentryService(cred, e).kind # "return"
       THEN handleError(createSentryService(cred, e))
       ELSE IF fetchJson(up).kind # "return" THEN handleError(fetchJson(up))
            ELSE Returned("ToolCallResult", <<"organizations">>, {"handler", "upstream"})

\* SentryHandler.getOrganizations (ES module): failures propagate
getOrganizationsEsm(cred, e, args, up) ==
  IF createSentryService(cred, e).kind # "return" THEN createSentryService(cred, e)
  ELSE IF fetchJson(up).kind # "return" THEN fetchJson(up)
       ELSE Returned("ToolCallResult", <<"organizations">>, {"handler", "upstream"})

\* JiraHandler.createJiraService: token, domain and e-mail, each with its
\* environment fallback, checked in this order
createJiraService(cred, e) ==
  IF OrS(cred["jira.token"], e["JIRA_ACCESS_TOKEN"]) = ""
  THEN ThrewMcp(InvalidParams,
                <<"JIRA API token is required. Provide it as a parameter, pass --jiraAccessToken argument, or set JIRA_ACCESS_TOKEN environment variable.">>,
                {"handler"})
  ELSE IF OrS(cred["jira.domain"], e["ATLASSIAN_DOMAIN"]) = ""
       THEN ThrewMcp(InvalidParams,
                     <<"JIRA domain is required. Provide it as a parameter, pass --atlassianDomain argument, or set ATLASSIAN_DOMAIN environment variable.">>,
                     {"handler"})
       ELSE IF OrS(cred["jira.email"], e["JIRA_USER_EMAIL"]) = ""
            THEN ThrewMcp(InvalidParams,
                          <<"JIRA user email is required. Provide it as a parameter, pass --jiraUserEmail argument, or set JIRA_USER_EMAIL environment variable.">>,
                          {"handler"})
            ELSE Returned("service", <<>>, {"handler"})

\* JiraHandler.getJiraTicketDetails: reading args.ticketKey of undefined is a
\* TypeError; every later failure, the missing credential included, is
\* caught and returned as a text result
getJiraTicketDetails(cred, e, args, up) ==
  IF args = "absent"
  THEN ThrewError(<<"Cannot read properties of undefined (reading 'ticketKey')">>, {"handler"})
  ELSE IF args # "ticketKey"
       THEN Returned("ToolCallResult", <<"Error: JIRA ticket key is required">>, {"handler"})
       ELSE IF createJiraService(cred, e).kind # "return"
            THEN Returned("ToolCallResult",
                          <<"Failed to process your request: ">> \o createJiraService(cred, e).message,
                          {"handler"})
            ELSE Returned("ToolCallResult",
                          IF up = "ok" THEN <<"ticket">>
                          ELSE IF up = "http404" THEN <<"Error: JIRA ticket ", "not found">>
                          ELSE <<"Error fetching JIRA ticket: ", up>>,
                          {"handler", "upstream"})

\* DateTimeHandler.getCurrentDateTime: args.format of undefined is a TypeError,
\* an unknown time zone a RangeError of toLocaleString
getCurrentDateTime(args) ==
  IF args = "absent"
  THEN ThrewError(<<"Cannot read properties of undefined (reading 'format')">>, {"handler"})
  ELSE IF args = "badTimezone"
       THEN ThrewError(<<"Invalid time zone specified">>, {"handler"})
       ELSE Returned("ToolCallResult", <<"Current Date/Time Information">>, {"handler"})

(***************************************************************************)
(* Responses.  A body is a JSON-RPC result, a JSON-RPC error, or null (no  *)
(* body).  data = <<>> stands for an absent `data`.                        *)
(***************************************************************************)
NoResult == [shape |-> "", tools |-> {}, text |-> <<>>]

ErrorResponse(status, code, message, data, id) ==
  [status |-> status, kind |-> "error", id |-> id, code |-> code,
   message |-> message, data |-> data, result |-> NoResult]

ResultResponse(result, id) ==
  [status |-> 200, kind |-> "result", id |-> id, code |-> 0,
   message |-> <<>>, data |-> <<>>, result |-> result]

\* a notification answered with a JSON-RPC payload all the same
NullResponseWithPayload ==
  [status |-> 200, kind |-> "result", id |-> JNull, code |-> 0,
   message |-> <<>>, data |-> <<>>, result |-> NoResult]

NullResponse ==
  [status |-> 200, kind |-> "null", id |-> JUndef, code |-> 0,
   message |-> <<>>, data |-> <<>>, result |-> NoResult]

NoResponse ==
  [status |-> 0, kind |-> "pending", id |-> JUndef, code |-> 0,
   message |-> <<>>, data |-> <<>>, result |-> NoResult]

InitializeResult == [shape |-> "initialize", tools |-> {}, text |-> <<"2024-11-05">>]

ToolsResult(tools) == [shape |-> "tools", tools |-> tools, text |-> <<>>]

ToolResult(o) == [shape |-> o.shape, tools |-> {}, text |-> o.message]

\* an McpError answered as if it were any other error
mcpErrorResponseGeneric(o, id) ==
  ErrorResponse(500, InternalError, <<"Internal server error">>, <<>>, Or(id, JNull))

\* the response for an McpError: its code and message, status 400
mcpErrorResponse(o, id) == ErrorResponse(400, o.code, o.message, <<>>, Or(id, JNull))

\* what a call of the dispatcher amounts to: the response it returned (or
\* NoResponse when it threw), the error it threw (or NoOutcome), the steps
\* that ran, and what the tool handler did
Ran(resp, thrown, steps, outcome) ==
  [resp |-> resp, thrown |-> thrown, steps |-> steps, outcome |-> outcome]

\* the requests: one JSON-RPC envelope with its transport headers
Request(jsonrpc, method, id, name, args, headers, hcase) ==
  [jsonrpc |-> jsonrpc, method |-> method, id |-> id, name |-> name,
   args |-> args, headers |-> headers, hcase |-> hcase]

\* toolArgs || {}
OrEmpty(args) == IF args = "absent" THEN "empty" ELSE args

(***************************************************************************)
(* processMCPRequest (CommonJS), the dispatcher behind the Netlify         *)
(* function.                                                               *)
(***************************************************************************)
\* the  switch (toolName)  with the handlers of the request
callHandler(name, args, cred, e, up) ==
  CASE name = "get_sentry_organizations" -> getOrganizations(cred, e, OrEmpty(args), up)
    [] name = "get_jira_ticket_details" ->
         IF args # "ticketKey"
         THEN ThrewMcp(InvalidParams, <<"ticketKey is required for JIRA ticket details">>, {})
         ELSE getJiraTicketDetails(cred, e, args, up)
    [] name = "get_current_datetime" -> getCurrentDateTime(args)
    [] OTHER -> NoOutcome

processMCPRequest(r, e, mode, up) ==
  IF r.jsonrpc # JStr("2.0")
  THEN Ran(ErrorResponse(400, InvalidRequest,
                         <<"Invalid Request - JSON-RPC 2.0 format required">>, <<>>,
                         Or(r.id, JNull)),
           NoOutcome, {}, NoOutcome)
  ELSE IF ~Truthy(r.method)
  THEN Ran(ErrorResponse(400, InvalidRequest,
                         <<"Invalid Request - method is required">>, <<>>,
                         Or(r.id, JNull)),
           NoOutcome, {}, NoOutcome)
  ELSE IF r.method = JStr("initialize")
  THEN Ran(ResultResponse(InitializeResult, r.id), NoOutcome, {"initialize"}, NoOutcome)
  ELSE IF r.method = JStr("notifications/initialized")
  THEN Ran(NullResponse, NoOutcome, {"initialized"}, NoOutcome)
  ELSE IF r.method = JStr("tools/list")
  THEN Ran(ResultResponse(ToolsResult(TOOL_DEFINITIONS), r.id), NoOutcome,
           {"listTools"}, NoOutcome)
  ELSE IF r.method = JStr("tools/call")
  THEN IF r.name = ""
       THEN Ran(ErrorResponse(400, InvalidParams,
                              <<"Invalid params - tool name is required">>, <<>>,
                              Or(r.id, JNull)),
                NoOutcome, {"callTool"}, NoOutcome)
       ELSE LET cred == extractCredentials(r, e)
                o == callHandler(r.name, r.args, cred, e, up)
                steps == {"callTool", "extractCredentials", "createHandlers"} \cup o.steps
            IN CASE o.kind = "none" ->
                      Ran(ErrorResponse(404, MethodNotFound,
                                        <<"Method not found: ", r.name>>, <<>>,
                                        Or(r.id, JNull)),
                          NoOutcome, steps, o)
                 [] o.kind = "return" ->
                      Ran(ResultResponse(ToolResult(o), r.id), NoOutcome, steps, o)
                 [] o.kind = "McpError" ->
                      Ran(mcpErrorResponse(o, r.id), NoOutcome, steps, o)
                 [] o.kind = "Error" ->
                      Ran(ErrorResponse(500, InternalError, <<"Internal server error">>,
                                        IF mode = "development" THEN o.message ELSE <<>>,
                                        Or(r.id, JNull)),
                          NoOutcome, steps, o)
  ELSE Ran(ErrorResponse(404, MethodNotFound, <<"Method not found: ", r.method.s>>, <<>>,
                         Or(r.id, JNull)),
           NoOutcome, {}, NoOutcome)

(***************************************************************************)
(* processMCPRequest (ES module) and the Netlify function in front of it.  *)
(***************************************************************************)
\* the  switch (toolName)  of the ES module; the ticket tool hands the
\* handler toolArgs.ticketKey, a string, in place of the arguments
callHandlerEsm(name, args, cred, e, up) ==
  CASE name = "get_sentry_organizations" -> getOrganizationsEsm(cred, e, OrEmpty(args), up)
    [] name = "get_jira_ticket_details" ->
         IF args = "absent"
         THEN ThrewError(<<"Cannot read properties of undefined (reading 'ticketKey')">>, {})
         ELSE getJiraTicketDetails(cred, e, IF args = "ticketKey" THEN "empty" ELSE "absent", up)
    [] name = "get_current_datetime" -> getCurrentDateTime(args)
    [] OTHER -> ThrewMcp(MethodNotFound, <<"Unknown tool: ", name>>, {})

processMCPRequestEsm(r, e, mode, up) ==
  IF r.jsonrpc # JStr("2.0")
  THEN Ran(ErrorResponse(400, InvalidRequest, <<"Invalid Request">>, <<>>, r.id),
           NoOutcome, {}, NoOutcome)
  ELSE IF r.method = JStr("initialize")
  THEN Ran(ResultResponse(InitializeResult, r.id), NoOutcome, {"initialize"}, NoOutcome)
  ELSE IF r.method = JStr("notifications/initialized")
  THEN Ran(NullResponse, NoOutcome, {"initialized"}, NoOutcome)
  ELSE IF r.method = JStr("tools/list")
  THEN Ran(ResultResponse(ToolsResult(TOOL_DEFINITIONS), r.id), NoOutcome,
           {"listTools"}, NoOutcome)
  ELSE IF r.method = JStr("tools/call")
  THEN LET cred == extractCredentialsEsm(r, e)
           o == callHandlerEsm(r.name, r.args, cred, e, up)
           steps == {"callTool", "extractCredentials", "createHandlers"} \cup o.steps
       IN CASE o.kind = "return" ->
                 Ran(ResultResponse(ToolResult(o), r.id), NoOutcome, steps, o)
            [] o.kind = "McpError" -> Ran(NoResponse, o, steps, o)
            [] o.kind = "Error" ->
                 Ran(NoResponse,
                     ThrewMcp(InternalError, <<"Error executing tool: ">> \o o.message, o.steps),
                     steps, o)
  ELSE Ran(ErrorResponse(400, MethodNotFound,
                         <<"Method not found: ", IF r.method.t = "undefined" THEN "undefined" ELSE r.method.s>>,
                         <<>>, r.id),
           NoOutcome, {}, NoOutcome)

\* exports.handler of the Netlify function: the dispatcher's response, or for
\* an error the dispatcher threw a 500 that carries the error's message
handler(r, run) ==
  IF run.thrown.kind = "none" THEN run.resp
  ELSE ErrorResponse(500, InternalError, <<"Internal error">>, run.thrown.message,
                     Or(r.id, JNull))

(***************************************************************************)
(* MCPServer (OAuth deployment).                                           *)
(***************************************************************************)
hasSentryAuth(cred) ==
  cred["sentry.token"] # "" /\ cred["sentry.host"] # "" /\ cred["sentry.organization"] # ""

\* credentials.jira.cloudId is set exactly when jira.domain is
hasJiraAuth(cred) == cred["jira.token"] # "" /\ cred["jira.domain"] # ""

\* listTools without the rule that hides every tool from an unauthenticated
\* client: a tool of a service is listed only with that service's credentials
listToolsStrict(st) ==
  LET cred == extractCredentialsOAuth(st)
  IN (IF hasSentryAuth(cred) THEN SentryNamed \cap ENABLED_TOOLS ELSE {})
     \cup (IF hasJiraAuth(cred) THEN JiraNamed \cap ENABLED_TOOLS ELSE {})
     \cup ((TOOL_DEFINITIONS \ (SentryNamed \cup JiraNamed)) \cap ENABLED_TOOLS)

\* MCPServer.listTools: nothing without any authentication, else the enabled
\* tools of the authenticated services and the tools of no service
listTools(st) ==
  LET cred == extractCredentialsOAuth(st)
  IN IF ~hasSentryAuth(cred) /\ ~hasJiraAuth(cred) THEN {}
     ELSE (IF hasSentryAuth(cred) THEN SentryNamed \cap ENABLED_TOOLS ELSE {})
          \cup (IF hasJiraAuth(cred) THEN JiraNamed \cap ENABLED_TOOLS ELSE {})
          \cup ((TOOL_DEFINITIONS \ (SentryNamed \cup JiraNamed)) \cap ENABLED_TOOLS)

\* the tool names checkAuthenticationStatus gates, by service
sentryTools ==
  {"get_sentry_organizations", "get_sentry_projects", "get_sentry_issues",
   "get_sentry_issue_details", "search_sentry_issues"}

jiraTools ==
  {"get_jira_projects", "get_jira_issues", "get_jira_issue_details",
   "create_jira_issue", "update_jira_issue", "add_jira_comment", "search_jira_issues"}

\* checkAuthenticationStatus: the services whose authentication is missing
checkAuthenticationStatus(cred, name) ==
  (IF name \in sentryTools /\ ~hasSentryAuth(cred) THEN {"sentry"} ELSE {})
  \cup (IF name \in jiraTools /\ ~hasJiraAuth(cred) THEN {"atlassian"} ELSE {})
  \cup (IF name = "create_jira_issue"
        THEN (IF ~hasSentryAuth(cred) THEN {"sentry"} ELSE {})
             \cup (IF ~hasJiraAuth(cred) THEN {"atlassian"} ELSE {})
        ELSE {})

\* MCPServer.callTool: [o: what its try block ended with, out: what callTool
\* returned or threw]
callTool(name, args, st, e, up) ==
  IF name = ""
  THEN [o |-> ThrewMcp(InvalidParams, <<"Tool name is required">>, {}),
        out |-> ThrewMcp(InvalidParams, <<"Tool name is required">>, {"callTool"})]
  ELSE LET cred == extractCredentialsOAuth(st)
           missing == checkAuthenticationStatus(cred, name)
           o == callHandler(name, OrEmpty(args), cred, e, up)
           steps == {"callTool", "extractCredentials"}
       IN IF missing # {}
          THEN [o |-> ThrewMcp(InvalidRequest,
                               <<"Authentication required for ",
                                 IF "atlassian" \in missing THEN "atlassian" ELSE "sentry">>,
                               {}),
                out |-> ThrewMcp(InvalidRequest,
                                 <<"Authentication required for ",
                                   IF "atlassian" \in missing THEN "atlassian" ELSE "sentry">>,
                                 steps)]
          ELSE CASE o.kind = "none" ->
                      [o |-> ThrewMcp(MethodNotFound, <<"Unknown tool: ", name>>, {}),
                       out |-> ThrewMcp(MethodNotFound, <<"Unknown tool: ", name>>,
                                        steps \cup {"createHandlers"})]
                 [] o.kind = "Error" ->
                      [o |-> o,
                       out |-> ThrewMcp(InternalError,
                                        <<"Error executing tool ", name, ": ">> \o o.message,
                                        steps \cup {"createHandlers"} \cup o.steps)]
                 [] OTHER ->
                      [o |-> o,
                       out |-> [o EXCEPT !.steps = steps \cup {"createHandlers"} \cup o.steps]]

processRequest(r, st, e, mode, up) ==
  IF r.jsonrpc # JStr("2.0")
  THEN Ran(ErrorResponse(400, InvalidRequest,
                         <<"Invalid Request - JSON-RPC 2.0 format required">>, <<>>,
                         Or(r.id, JNull)),
           NoOutcome, {}, NoOutcome)
  ELSE IF ~Truthy(r.method)
  THEN Ran(ErrorResponse(400, InvalidRequest,
                         <<"Invalid Request - method is required">>, <<>>,
                         Or(r.id, JNull)),
           NoOutcome, {}, NoOutcome)
  ELSE IF r.method = JStr("initialize")
  THEN Ran(ResultResponse(InitializeResult, r.id), NoOutcome, {"initialize"}, NoOutcome)
  ELSE IF r.method = JStr("notifications/initialized")
  THEN Ran(NullResponse, NoOutcome, {"initialized"}, NoOutcome)
  ELSE IF r.method = JStr("tools/list")
  THEN Ran(ResultResponse(ToolsResult(listTools(st)), r.id), NoOutcome,
           {"listTools", "extractCredentials"}, NoOutcome)
  ELSE IF r.method = JStr("tools/call")
  THEN LET c == callTool(r.name, r.args, st, e, up)
       IN IF c.out.kind = "return"
          THEN Ran(ResultResponse(ToolResult(c.out), r.id), NoOutcome, c.out.steps, c.o)
          ELSE IF c.out.kind = "McpError"
          THEN Ran(mcpErrorResponse(c.out, r.id), NoOutcome, c.out.steps, c.o)
          ELSE Ran(ErrorResponse(500, InternalError, <<"Internal server error">>,
                                 IF mode = "development" THEN c.out.message ELSE <<>>,
                                 Or(r.id, JNull)),
                   NoOutcome, c.out.steps, c.o)
  ELSE Ran(ErrorResponse(404, MethodNotFound, <<"Method not found: ", r.method.s>>, <<>>,
                         Or(r.id, JNull)),
           NoOutcome, {}, NoOutcome)

(***************************************************************************)
(* The state machine: one process of one deployment serves one request at  *)
(* a time to completion.                                                   *)
(***************************************************************************)
VARIABLES
  deployment,  \* which dispatcher this process runs
  nodeEnv,     \* process.env.NODE_ENV
  env,         \* the credential variables of process.env
  store,       \* the services with a stored OAuth token
  pc,          \* "idle", or "responded" once the request is answered
  req,         \* the request being served
  resp,        \* the response the transport sends
  thrown,      \* the error the dispatcher threw to the transport, if any
  ran,         \* the steps that ran for the request
  outcome,     \* what the tool handler did
  upstream,    \* what the upstream service answered, "none" when not called
  cred,        \* the credentials resolved for the request
  log,         \* the log entries of the tool invocation, in order
  svcCall,     \* the handler or service operation called on its own, with its inputs
  svcReturn,   \* what that operation returned, logged and sent upstream
  rawEvent,    \* the stack frames of the raw event object a caller holds
  rawTicket,   \* the raw ticket object a caller holds
  formatCalls, \* the formatter calls made on the caller's raw objects, in order
  jiraFields,  \* how many fields GET /field of the issue tracker lists
  fieldMappings, \* this.fieldMappings of the one JiraService instance
  sessions,    \* this.sessions of the HttpTransport: session id to the SSE response stored
  connections, \* the SSE connections accepted so far: id, open or closed, ping timer
  posts,       \* the posted stream requests being processed, with the session each got
  served,      \* the last reply or write of the transport
  listening,   \* FALSE once stop() was called
  tokenFiles,  \* the OAuth token files of the token directory, by service and org
  tokenClock,  \* Date.now(), in minutes
  tokenCall,   \* the last call on the token storage, with the files before it
  invocations  \* the calls of getFieldMappings on that instance: where each is

vars ==
  <<deployment, nodeEnv, env, store, pc, req, resp, thrown, ran, outcome, upstream, cred,
    log, svcCall, svcReturn, rawEvent, rawTicket, formatCalls,
    jiraFields, fieldMappings, invocations, tokenFiles, tokenClock, tokenCall,
    sessions, connections, posts, served, listening>>

\* the objects the formatters, caches, token storage and transport work on
fmtVars == <<rawEvent, rawTicket, formatCalls>>

cacheVars == <<jiraFields, fieldMappings, invocations>>

storageVars == <<tokenFiles, tokenClock, tokenCall>>

transportVars == <<sessions, connections, posts, served, listening>>

serverVars == <<storageVars, transportVars>>

objVars == <<fmtVars, cacheVars, serverVars>>

\* the variables of a request being served and of an operation called on
\* its own
callVars ==
  <<deployment, nodeEnv, env, store, pc, req, resp, thrown, ran, outcome, upstream, cred, log,
    svcCall, svcReturn>>

svcVars == <<svcCall, svcReturn, objVars>>

dispatchVars ==
  <<deployment, nodeEnv, env, store, pc, req, resp, thrown, ran, outcome, upstream, cred, log,
    objVars>>

\* no object is in use
NoFormatting ==
  /\ rawEvent = <<>>
  /\ rawTicket = [description |-> 0, comments |-> <<>>]
  /\ formatCalls = <<>>

NoCache ==
  /\ jiraFields = 0
  /\ fieldMappings = [cached |-> FALSE, ids |-> {}]
  /\ invocations = <<>>

\* a stored OAuth record, and the absence of one
NoFile == [type |-> "none", accessToken |-> 0, expiresAt |-> 0, org |-> ""]

\* the organisations tokens are stored for, and the token files of the
\* two services: sentry-oauth-<org>.json and atlassian-oauth-<org>.json
Orgs == {"default"}

TokenFileNames == {"sentry-oauth", "atlassian-oauth"} \X Orgs

NoTokens ==
  /\ tokenFiles = [f \in TokenFileNames |-> NoFile]
  /\ tokenClock = 0
  /\ tokenCall = [op |-> "none"]

\* no post is being processed in a slot
NoPost == [id |-> "", connection |-> 0]

\* the stream session ids clients connect under, and the most requests
\* being processed at once
SessionIds == {"s1", "s2"}

MaxPosts == 2

NoTransport ==
  /\ sessions = [id \in {} |-> 0]
  /\ connections = <<>>
  /\ posts = [p \in 1..MaxPosts |-> NoPost]
  /\ served = [route |-> "none", status |-> 0, wrote |-> "nothing"]
  /\ listening = TRUE

NoServer == NoTokens /\ NoTransport

InitObj == NoFormatting /\ NoCache /\ NoServer

NoCall == [op |-> "none"]

NoReturn == [kind |-> "none"]

NoCredentials == [f \in Fields |-> ""]

\* the resolver of each deployment
resolve(d, r, e, st) ==
  CASE d = "processor" -> extractCredentials(r, e)
    [] d = "esm" -> extractCredentialsEsm(r, e)
    [] d = "server" -> extractCredentialsOAuth(st)

\* a log entry of a tool invocation: "start", "success", "failure" or
\* "unknown" (the warning for an unknown tool), with or without the elapsed
\* time
LogEntry(event, elapsed) == [event |-> event, elapsed |-> elapsed]

\* processMCPRequest (CommonJS and ES module): "Executing tool", then "executed
\* successfully", "Error executing tool" or "Unknown tool"; no entry names a
\* duration.  The CommonJS dispatcher returns before the first entry when the
\* tool name is missing, and returns from the switch for an unknown tool.
processMCPRequestLog(d, r, run) ==
  IF r.jsonrpc # JStr("2.0") \/ r.method # JStr("tools/call") THEN <<>>
  ELSE IF d = "processor" /\ r.name = "" THEN <<>>
  ELSE <<LogEntry("start", FALSE)>>
       \o (CASE run.outcome.kind = "return" -> <<LogEntry("success", FALSE)>>
             [] run.outcome.kind = "none" -> <<LogEntry("unknown", FALSE)>>
             [] d = "processor" -> <<LogEntry("failure", FALSE)>>
             [] run.outcome.kind = "McpError" /\ run.outcome.code = MethodNotFound ->
                  <<LogEntry("unknown", FALSE), LogEntry("failure", FALSE)>>
             [] OTHER -> <<LogEntry("failure", FALSE)>>)

\* MCPServer.callTool: "Executing tool", then "completed successfully in
\* <elapsed>ms" or "failed after <elapsed>ms"; an unknown tool is warned about
\* and then fails.  A missing tool name throws before the first entry.
callToolLog(r, run) ==
  IF r.jsonrpc # JStr("2.0") \/ r.method # JStr("tools/call") \/ r.name = "" THEN <<>>
  ELSE <<LogEntry("start", FALSE)>>
       \o (CASE run.outcome.kind = "return" -> <<LogEntry("success", TRUE)>>
             [] run.outcome.kind = "McpError" /\ run.outcome.code = MethodNotFound ->
                  <<LogEntry("unknown", FALSE), LogEntry("failure", TRUE)>>
             [] OTHER -> <<LogEntry("failure", TRUE)>>)

\* the log of the deployment's dispatcher
toolLog(d, r, run) ==
  IF d = "server" THEN callToolLog(r, run) ELSE processMCPRequestLog(d, r, run)

Deployments == {"processor", "esm", "server"}

JsonRpcs == {JUndef, JStr("1.0"), JStr("2.0")}

Methods ==
  {JUndef, JStr("initialize"), JStr("notifications/initialized"),
   JStr("tools/list"), JStr("tools/call"), JStr("bogus")}

Ids == {JUndef, JNull, JNum(0), JNum(7), JStr("abc")}

ToolNames ==
  {"", "get_sentry_organizations", "get_jira_ticket_details",
   "get_current_datetime", "no_such_tool", "search_sentry_issues"}

\* params is read for tools/call only
Requests ==
  {Request(j, m, i, "", "absent", h, "lower") :
     j \in JsonRpcs, m \in Methods \ {JStr("tools/call")}, i \in Ids, h \in HeaderMaps}
  \cup
  {Request(j, JStr("tools/call"), i, x[1], x[2], h, "lower") :
     j \in JsonRpcs, i \in Ids, x \in ToolNames \X ArgShapes, h \in HeaderMaps}

NoRequest == Request(JUndef, JUndef, JUndef, "", "absent", NoHeaders, "lower")

Init ==
  /\ deployment \in Deployments
  /\ nodeEnv \in {"production", "development"}
  /\ env \in EnvMaps
  /\ store = {}
  /\ pc = "idle"
  /\ req = NoRequest
  /\ resp = NoResponse
  /\ thrown = NoOutcome
  /\ ran = {}
  /\ outcome = NoOutcome
  /\ upstream = "none"
  /\ cred = NoCredentials
  /\ log = <<>>
  /\ svcCall = NoCall
  /\ svcReturn = NoReturn
  /\ InitObj

\* the transport records what the dispatcher did with request r
Serve(r, run, up) ==
  /\ ("upstream" \in run.steps) \/ up = "ok"
  /\ req' = r
  /\ resp' = handler(r, run)
  /\ thrown' = run.thrown
  /\ ran' = run.steps
  /\ outcome' = run.outcome
  /\ upstream' = IF "upstream" \in run.steps THEN up ELSE "none"
  /\ cred' = IF "extractCredentials" \in run.steps
             THEN resolve(deployment, r, env, store) ELSE NoCredentials
  /\ log' = toolLog(deployment, r, run)
  /\ pc' = "responded"
  /\ UNCHANGED svcVars
  /\ UNCHANGED <<deployment, nodeEnv, env, store>>

NetlifyProcessor ==
  /\ deployment = "processor"
  /\ pc = "idle"
  /\ \E r \in Requests, up \in UpstreamOutcomes :
       Serve(r, processMCPRequest(r, env, nodeEnv, up), up)

NetlifyEsm ==
  /\ deployment = "esm"
  /\ pc = "idle"
  /\ \E r \in Requests, up \in UpstreamOutcomes :
       Serve(r, processMCPRequestEsm(r, env, nodeEnv, up), up)

ServerProcessRequest ==
  /\ deployment = "server"
  /\ pc = "idle"
  /\ \E r \in Requests, up \in UpstreamOutcomes :
       Serve(r, processRequest(r, store, env, nodeEnv, up), up)

\* the OAuth flow stores a service's token
storeToken ==
  /\ deployment = "server"
  /\ pc = "idle"
  /\ \E svc \in Services \ store : store' = store \cup {svc}
  /\ UNCHANGED svcVars
  /\ UNCHANGED <<deployment, nodeEnv, env, pc, req, resp, thrown, ran, outcome, upstream, cred, log>>

\* a stored token is removed
removeToken ==
  /\ deployment = "server"
  /\ pc = "idle"
  /\ \E svc \in store : store' = store \ {svc}
  /\ UNCHANGED svcVars
  /\ UNCHANGED <<deployment, nodeEnv, env, pc, req, resp, thrown, ran, outcome, upstream, cred, log>>

\* the response is sent; the process waits for the next request
Reply ==
  /\ pc = "responded"
  /\ pc' = "idle"
  /\ req' = NoRequest
  /\ resp' = NoResponse
  /\ thrown' = NoOutcome
  /\ ran' = {}
  /\ outcome' = NoOutcome
  /\ upstream' = "none"
  /\ cred' = NoCredentials
  /\ log' = <<>>
  /\ UNCHANGED svcVars
  /\ UNCHANGED <<deployment, nodeEnv, env, store>>

Next ==
  \/ NetlifyProcessor
  \/ NetlifyEsm
  \/ ServerProcessRequest
  \/ storeToken
  \/ removeToken
  \/ Reply

Spec == Init /\ [][Next]_vars

(***************************************************************************)
(* The credential resolver on its own, for requests whose header names are *)
(* spelled in any of the three ways.                                       *)
(***************************************************************************)
extractCredentialsCall ==
  /\ pc = "idle"
  /\ \E h \in HeaderMaps, c \in HeaderCases :
       /\ req' = Request(JStr("2.0"), JStr("tools/call"), JUndef, "", "absent", h, c)
       /\ cred' = resolve(deployment, req', env, store)
  /\ ran' = {"extractCredentials"}
  /\ pc' = "responded"
  /\ UNCHANGED svcVars
  /\ UNCHANGED <<deployment, nodeEnv, env, store, resp, thrown, outcome, upstream, log>>

NextCred ==
  \/ extractCredentialsCall
  \/ storeToken
  \/ removeToken
  \/ Reply

SpecCred == Init /\ [][NextCred]_vars

(***************************************************************************)
(* The handlers and the upstream clients called on their own: one          *)
(* operation at a time, with its arguments and with what every upstream    *)
(* request of the call does.                                               *)
(***************************************************************************)
\* no request is being served and no operation called on its own
InitIdle ==
  /\ deployment = "processor"
  /\ nodeEnv = "production"
  /\ env = NoEnv
  /\ store = {}
  /\ pc = "idle"
  /\ req = NoRequest
  /\ resp = NoResponse
  /\ thrown = NoOutcome
  /\ ran = {}
  /\ outcome = NoOutcome
  /\ upstream = "none"
  /\ cred = NoCredentials
  /\ log = <<>>
  /\ svcCall = NoCall
  /\ svcReturn = NoReturn

InitSvc == InitIdle /\ InitObj

\* an optional boolean argument
Tri == {"undefined", "true", "false"}

\* what one upstream request does
FetchOutcomes == {"ok", "throw"}

\* SentryFormatter.formatIssueDetails with tags and latest event always given
\* a summary
formatIssueDetailsAlwaysTags(issueDetails, tagsArray, latestEvent, checkDeepDetails) ==
  {"id", "title"}
  \cup (IF checkDeepDetails THEN {"hasSeen", "stats", "tagsSummary"} ELSE {})
  \cup (IF latestEvent # "null" THEN {"stacktrace"} ELSE {})
  \cup (IF latestEvent # "null" /\ checkDeepDetails THEN {"exception"} ELSE {})

\* SentryFormatter.formatIssueDetails: the keys of the formatted issue
formatIssueDetails(issueDetails, tagsArray, latestEvent, checkDeepDetails) ==
  {"id", "title"}
  \cup (IF checkDeepDetails THEN {"hasSeen", "stats"} ELSE {})
  \cup (IF tagsArray # "null" /\ checkDeepDetails THEN {"tagsSummary"} ELSE {})
  \cup (IF latestEvent # "null" THEN {"stacktrace"} ELSE {})
  \cup (IF latestEvent # "null" /\ checkDeepDetails THEN {"exception"} ELSE {})

\* SentryHandler.getSentryIssueDetails (CommonJS), the token given: a is the
\* arguments, up what the issue, tags and latest-event requests do
getSentryIssueDetails(a, up) ==
  LET actualIncludeTags == a.includeTags = "true"
      actualTrace == a.trace # "false"
      checkDeepDetails == a.deepDetails = "true"
      wantTags == actualIncludeTags \/ checkDeepDetails
      wantEvent == actualTrace \/ checkDeepDetails
      tags == IF wantTags /\ up.tags = "ok" THEN "tags" ELSE "null"
      latestEvent == IF wantEvent /\ up.event = "ok" THEN "event" ELSE "null"
  IN IF up.issue = "throw"
     THEN [kind |-> "return", shape |-> "string", keys |-> {}, formatted |-> FALSE,
           warnings |-> <<>>, fetched |-> <<"issue">>]
     ELSE [kind |-> "return", shape |-> "ToolCallResult",
           keys |-> formatIssueDetails("issue", tags, latestEvent, checkDeepDetails),
           formatted |-> TRUE,
           warnings |->
             (IF wantTags /\ up.tags = "throw" THEN <<"Could not fetch tags">> ELSE <<>>)
             \o (IF wantEvent /\ up.event = "throw"
                 THEN <<"Could not fetch latest event">> ELSE <<>>),
           fetched |->
             <<"issue">> \o (IF wantTags THEN <<"tags">> ELSE <<>>)
                         \o (IF wantEvent THEN <<"event">> ELSE <<>>)]

\* one call of getSentryIssueDetails
getSentryIssueDetailsCall ==
  /\ svcCall = NoCall
  /\ \E it \in Tri, tr \in Tri, dd \in Tri,
        ui \in FetchOutcomes, ut \in FetchOutcomes, ue \in FetchOutcomes :
       LET a == [includeTags |-> it, trace |-> tr, deepDetails |-> dd]
           up == [issue |-> ui, tags |-> ut, event |-> ue]
       IN /\ svcCall' = [op |-> "getSentryIssueDetails", a |-> a, up |-> up]
          /\ svcReturn' = getSentryIssueDetails(a, up)
  /\ UNCHANGED dispatchVars

\* what one request to JIRA does: a 2xx answer, another status, no answer
\* within 15 seconds (the AbortController aborts), or a rejected fetch
JiraFetchOutcomes == {"ok", "http", "timeout", "network"}

\* what a JiraService method did: returned (names tells whether the field
\* mappings were at hand) or threw an Error
JiraReturned(names, warnings, fetched) ==
  [kind |-> "return", message |-> <<>>, names |-> names, warnings |-> warnings,
   fetched |-> fetched]

JiraThrew(message, warnings, fetched) ==
  [kind |-> "Error", message |-> message, names |-> FALSE, warnings |-> warnings,
   fetched |-> fetched]

\* JiraService.getJiraIssueFields: GET /field
getJiraIssueFields(up) ==
  CASE up = "ok" -> JiraReturned(TRUE, <<>>, <<"field">>)
    [] up = "timeout" ->
         JiraThrew(<<"JIRA API request timed out after 15 seconds">>, <<>>, <<"field">>)
    [] up = "http" ->
         JiraThrew(<<"Failed to fetch JIRA issue fields: ", "JIRA API Error (Global Fields): ">>,
                   <<>>, <<"field">>)
    [] up = "network" ->
         JiraThrew(<<"Failed to fetch JIRA issue fields: ", "fetch failed">>, <<>>, <<"field">>)

\* JiraService.getFieldMappings: the cached mappings, else the fetched ones
getFieldMappings(cached, up) ==
  IF cached THEN JiraReturned(TRUE, <<>>, <<>>) ELSE getJiraIssueFields(up)

\* the catch of getJiraTicketDetails: an AbortError is reported as a timeout
\* of the ticket, every other error as a failure to fetch the ticket
ticketError(name, message, fetched) ==
  IF name = "AbortError"
  THEN JiraThrew(<<"JIRA API request timed out after 15 seconds for ticket: ", "KEY-1">>,
                 <<>>, fetched)
  ELSE JiraThrew(<<"Failed to fetch JIRA ticket details: ">> \o message, <<>>, fetched)

\* the issue request of getJiraTicketDetails (the part both versions share)
issueRequest(upIssue) ==
  CASE upIssue = "ok" -> JiraReturned(FALSE, <<>>, <<"issue">>)
    [] upIssue = "timeout" -> ticketError("AbortError", <<"This operation was aborted">>, <<"issue">>)
    [] upIssue = "http" -> ticketError("Error", <<"JIRA API Error: ">>, <<"issue">>)
    [] upIssue = "network" -> ticketError("TypeError", <<"fetch failed">>, <<"issue">>)

\* JiraService.getJiraTicketDetails (src/services/JiraService.js): a failure of
\* the field mappings is logged and the ticket formatted without them
JiraService_getJiraTicketDetails(cached, upIssue, upFields) ==
  LET m == getFieldMappings(cached, upFields)
  IN IF upIssue # "ok" THEN issueRequest(upIssue)
     ELSE IF m.kind = "return"
          THEN JiraReturned(TRUE, <<>>, <<"issue">> \o m.fetched)
          ELSE JiraReturned(FALSE,
                            <<"Could not load field mappings, proceeding without them:">>
                              \o m.message,
                            <<"issue">> \o m.fetched)

\* JiraService.getJiraTicketDetails (the earlier version): the field mappings
\* are awaited inside the try of the whole method
JiraService_getJiraTicketDetails_v1(cached, upIssue, upFields) ==
  LET m == getFieldMappings(cached, upFields)
  IN IF upIssue # "ok" THEN issueRequest(upIssue)
     ELSE IF m.kind = "return"
          THEN JiraReturned(TRUE, <<>>, <<"issue">> \o m.fetched)
          ELSE ticketError("Error", m.message, <<"issue">> \o m.fetched)

\* the two versions of JiraService the repository carries
JiraServiceVersions == {"JiraService.js", "part_005"}

\* one call of JiraService.getJiraTicketDetails
JiraService_getJiraTicketDetailsCall ==
  /\ svcCall = NoCall
  /\ \E v \in JiraServiceVersions, cached \in BOOLEAN,
        ui \in JiraFetchOutcomes, uf \in JiraFetchOutcomes :
       /\ svcCall' = [op |-> "JiraService.getJiraTicketDetails", version |-> v,
                      cached |-> cached, upIssue |-> ui, upFields |-> uf]
       /\ svcReturn' = IF v = "JiraService.js"
                       THEN JiraService_getJiraTicketDetails(cached, ui, uf)
                       ELSE JiraService_getJiraTicketDetails_v1(cached, ui, uf)
  /\ UNCHANGED dispatchVars

\* the last day the clock of a call shows; day 0 is a Monday
MaxDay == 13

\* new Date() at the call: the day and the hour of the instant, in UTC
Nows == [day : 7..MaxDay, hour : 0..23]

\* Date.prototype.getTimezoneOffset of the host, in hours: UTC minus local
\* time (-2 is UTC+2, 8 is UTC-8)
TimezoneOffsets == {-2, 0, 8}

\* a serialized date: YYYY-MM-DD of the day, T, the hour, the minutes and
\* seconds, the milliseconds (".000", or "" when there are none) and the
\* suffix Z
DateStr(day, hour, minsec, ms, z) ==
  [day |-> day, hour |-> hour, minsec |-> minsec, ms |-> ms, z |-> z]

\* Date.prototype.toISOString of the instant hours:minsec.ms, in UTC
toISOString(hours, minsec, ms) ==
  DateStr(hours \div 24, hours % 24, minsec, ms, TRUE)

\* Date.prototype.getUTCDay: 0 is Sunday
getUTCDay(day) == (day + 1) % 7

\* formatForSentry of getPreviousWeekRange: replace(/\.\d{3}Z$/, '')
formatForSentry(d) == IF d.z /\ d.ms # "" THEN [d EXCEPT !.ms = "", !.z = FALSE] ELSE d

\* SentryService.getPreviousWeekRange: the time zone offset is added to the
\* instant, and the Sunday is the day of the shifted instant less its day of
\* the week
getPreviousWeekRange(now, offset) ==
  LET utcToday == now.day * 24 + now.hour + offset
      currentDay == getUTCDay(utcToday \div 24)
      lastSunday == (utcToday \div 24) - currentDay
      lastMonday == lastSunday - 6
  IN [startDate |-> formatForSentry(toISOString(lastMonday * 24, "00:00", ".000")),
      endDate |-> formatForSentry(toISOString(lastSunday * 24 + 23, "59:59", ".999"))]

\* formatDateForSentry of getSentryIssuesList: replace(/Z$/, '')
formatDateForSentry(d) == IF d = JUndef THEN d ELSE [d EXCEPT !.z = FALSE]

\* the two versions of SentryService the repository carries
SentryServiceVersions == {"SentryService.js", "part_006"}

\* a filter that may hold several values: absent, one value, or an array
NoValue == [t |-> "undefined", v |-> <<>>]

Scalar(x) == [t |-> "scalar", v |-> <<x>>]

Array(xs) == [t |-> "array", v |-> xs]

\* one clause of the search string: the custom query has no field
Clause(field, value) == [field |-> field, value |-> value]

\* forEach(x => params.append(name, x)): one parameter for each value; a
\* parameter is the sequence of the values its text joins
appendEach(xs) == [i \in 1..Len(xs) |-> <<xs[i]>>]

\* the request getSentryIssuesList sends: the clauses of the query parameter
\* (none: no query parameter) and, for every other parameter name, the
\* parameters of that name in the order they were appended
IssuesRequest(query, statsPeriod, start, end, environment, project, expand, collapse) ==
  [kind |-> "request", query |-> query, statsPeriod |-> statsPeriod,
   start |-> start, end |-> end, environment |-> environment,
   project |-> project, expand |-> expand, collapse |-> collapse]

\* params.f is not a function: the method throws before any request
IssuesTypeError ==
  [kind |-> "TypeError", query |-> <<>>, statsPeriod |-> <<>>, start |-> <<>>,
   end |-> <<>>, environment |-> <<>>, project |-> <<>>, expand |-> <<>>,
   collapse |-> <<>>]

\* the search clauses with the default clause kept beside a custom query
buildQueryPartsAppending(o) ==
  <<Clause("is", "unresolved")>>
  \o (IF Truthy(o.query) THEN <<Clause("", o.query.s)>> ELSE <<>>)
  \o (IF Truthy(o.issue) THEN <<Clause("issue", o.issue.s)>> ELSE <<>>)
  \o (IF Truthy(o.excludeErrorType)
      THEN <<Clause("!error.type", o.excludeErrorType.s)>> ELSE <<>>)
  \o (IF Truthy(o.errorMessage)
      THEN <<Clause("message", o.errorMessage.s)>> ELSE <<>>)

\* queryParts of getSentryIssuesList: the clauses join(' ') puts into the
\* search string; with none of them no query parameter is sent
buildQueryParts(o) ==
  (IF o.query # JUndef
   THEN (IF Truthy(o.query) THEN <<Clause("", o.query.s)>> ELSE <<>>)
   ELSE <<Clause("is", "unresolved")>>)
  \o (IF Truthy(o.issue) THEN <<Clause("issue", o.issue.s)>> ELSE <<>>)
  \o (IF Truthy(o.excludeErrorType)
      THEN <<Clause("!error.type", o.excludeErrorType.s)>> ELSE <<>>)
  \o (IF Truthy(o.errorMessage)
      THEN <<Clause("message", o.errorMessage.s)>> ELSE <<>>)

\* the date parameters with given dates sent beside statsPeriod
dateParamsWithGivenDates(v, o, now, offset) ==
  LET range == getPreviousWeekRange(now, offset)
      startDate == IF o.dateFrom # JUndef THEN o.dateFrom ELSE range.startDate
      endDate == IF o.dateTo # JUndef THEN o.dateTo ELSE range.endDate
  IN IF Truthy(o.statsPeriod)
     THEN [thrown |-> FALSE, statsPeriod |-> <<o.statsPeriod.s>>,
           start |-> IF o.dateFrom # JUndef THEN <<formatDateForSentry(startDate)>> ELSE <<>>,
           end |-> IF o.dateTo # JUndef THEN <<formatDateForSentry(endDate)>> ELSE <<>>]
     ELSE IF v = "SentryService.js"
          THEN [thrown |-> TRUE, statsPeriod |-> <<>>, start |-> <<>>, end |-> <<>>]
          ELSE [thrown |-> FALSE, statsPeriod |-> <<>>,
                start |-> <<formatDateForSentry(startDate)>>,
                end |-> <<formatDateForSentry(endDate)>>]

\* the date parameters of getSentryIssuesList: statsPeriod alone when it is
\* given, else start and end, a missing one taken from the previous week; in
\* SentryService.js the start is handed to params.f, which throws
dateParams(v, o, now, offset) ==
  LET range == getPreviousWeekRange(now, offset)
      startDate == IF o.dateFrom # JUndef THEN o.dateFrom ELSE range.startDate
      endDate == IF o.dateTo # JUndef THEN o.dateTo ELSE range.endDate
  IN IF Truthy(o.statsPeriod)
     THEN [thrown |-> FALSE, statsPeriod |-> <<o.statsPeriod.s>>,
           start |-> <<>>, end |-> <<>>]
     ELSE IF v = "SentryService.js"
          THEN [thrown |-> TRUE, statsPeriod |-> <<>>, start |-> <<>>, end |-> <<>>]
          ELSE [thrown |-> FALSE, statsPeriod |-> <<>>,
                start |-> <<formatDateForSentry(startDate)>>,
                end |-> <<formatDateForSentry(endDate)>>]

\* SentryService.getSentryIssuesList of version v with the options o at the
\* instant now on a host of the given time zone offset; sort, limit, utc,
\* groupStatsPeriod, cursor and shortIdLookup are left out
getSentryIssuesList(v, o, now, offset) ==
  LET dates == dateParams(v, o, now, offset)
      environment ==
        IF o.environment.t = "undefined" THEN <<>> ELSE appendEach(o.environment.v)
      project ==
        IF o.project.t = "undefined" THEN <<>>
        ELSE appendEach([i \in 1..Len(o.project.v) |-> ToString(o.project.v[i])])
      expand ==
        IF v = "SentryService.js" /\ o.expand.t = "array" THEN appendEach(o.expand.v)
        ELSE <<>>
      collapse ==
        IF o.collapse.t = "array" THEN appendEach(o.collapse.v) ELSE <<>>
  IN IF dates.thrown
     THEN IssuesTypeError
     ELSE IssuesRequest(buildQueryParts(o), dates.statsPeriod, dates.start, dates.end,
                        environment, project, expand, collapse)

\* the options getSentryIssuesList reads
IssueOptions(project, dateFrom, dateTo, excludeErrorType, errorMessage, environment, issue, statsPeriod, query, expand, collapse) ==
  [project |-> project, dateFrom |-> dateFrom, dateTo |-> dateTo,
   excludeErrorType |-> excludeErrorType, errorMessage |-> errorMessage,
   environment |-> environment, issue |-> issue, statsPeriod |-> statsPeriod,
   query |-> query, expand |-> expand, collapse |-> collapse]

\* the most values one filter is given
MaxValues == 2

\* the values a filter is given: none, one, or an array of 1..MaxValues
Filters(names) ==
  {NoValue, Scalar(names[1])} \cup {Array(SubSeq(names, 1, n)) : n \in 1..MaxValues}

OptStr(x) == {JUndef, JStr(x)}

\* options with search and filter fields, no dates
FilterOptions ==
  {IssueOptions(NoValue, JUndef, JUndef, ex, msg, NoValue, iss, JUndef, q, NoValue, NoValue) :
     ex \in OptStr("**404**"), msg \in OptStr("**APIError**"), iss \in OptStr("WEB-1"),
     q \in {JUndef, JStr(""), JStr("level:error")}}
  \cup
  {IssueOptions(p, JUndef, JUndef, JUndef, JUndef, e, JUndef, JUndef, JUndef, x, c) :
     p \in Filters(<<1, 2, 3, 4>>),
     e \in Filters(<<"production", "staging", "development", "test">>),
     x \in Filters(<<"owners", "inbox", "sessions", "pluginActions">>),
     c \in Filters(<<"stats", "lifetime", "base", "filtered">>)}

\* one call of SentryService.getSentryIssuesList, at noon on a host in UTC
getSentryIssuesListCall ==
  /\ svcCall = NoCall
  /\ \E v \in SentryServiceVersions, o \in FilterOptions, sp \in OptStr("7d"),
        now \in {n \in Nows : n.hour = 12} :
       LET options == [o EXCEPT !.statsPeriod = sp]
       IN /\ svcCall' = [op |-> "getSentryIssuesList", version |-> v,
                         options |-> options, now |-> now, offset |-> 0]
          /\ svcReturn' = getSentryIssuesList(v, options, now, 0)
  /\ UNCHANGED dispatchVars

\* SentryHandler.calculateRelativeDates: the days are counted and the times
\* set in the host's local time, the result is serialized in UTC
calculateRelativeDates(relativeDays, now, offset) ==
  LET today == (now.day * 24 + now.hour - offset) \div 24
  IN [dateFrom |-> toISOString((today - relativeDays) * 24 + offset, "00:00", ".000"),
      dateTo |-> toISOString(today * 24 + 23 + offset, "59:59", ".999")]

\* the most days a relative range reaches back
MaxRelativeDays == 2

\* the dates a caller writes, in the format the tool declares
CallerDateFrom == DateStr(1, 0, "00:00", "", FALSE)

CallerDateTo == DateStr(5, 23, "59:59", "", FALSE)

\* SentryHandler.getIssues with the service of version v, the arguments valid
\* and the organization known: the options handed to the service and what
\* the service did with them
getIssues(v, a, now, offset) ==
  LET given == IssueOptions(NoValue, a.dateFrom, a.dateTo, JUndef, JUndef, NoValue,
                            JUndef, a.statsPeriod, JUndef, NoValue, NoValue)
      dates == calculateRelativeDates(a.relativeDays.n, now, offset)
      issueOptions ==
        IF Truthy(a.relativeDays) /\ ~Truthy(a.statsPeriod)
        THEN [given EXCEPT !.dateFrom = dates.dateFrom, !.dateTo = dates.dateTo]
        ELSE given
      request == getSentryIssuesList(v, issueOptions, now, offset)
  IN [kind |-> "called", issueOptions |-> issueOptions, request |-> request]

\* one call of SentryHandler.getIssues
getIssuesCall ==
  /\ svcCall = NoCall
  /\ \E v \in SentryServiceVersions, now \in Nows, offset \in TimezoneOffsets,
        rd \in {JUndef} \cup {JNum(n) : n \in 0..MaxRelativeDays},
        sp \in OptStr("7d"), df \in {JUndef, CallerDateFrom}, dt \in {JUndef, CallerDateTo} :
       LET a == [relativeDays |-> rd, statsPeriod |-> sp, dateFrom |-> df, dateTo |-> dt]
       IN /\ svcCall' = [op |-> "getIssues", version |-> v, a |-> a,
                         now |-> now, offset |-> offset]
          /\ svcReturn' = getIssues(v, a, now, offset)
  /\ UNCHANGED dispatchVars

\* the statuses the issue tracker answers the issue request with
UpstreamStatuses == {200, 400, 401, 403, 404, 500}

\* what JiraService.getJiraTicketDetails throws for an answer that is not ok:
\* new Error(`JIRA API Error: ${response.status} ...`), caught and thrown
\* again as new Error(`Failed to fetch JIRA ticket details: ...`); an Error
\* made this way has a message and no status property
ticketHttpError(status) ==
  [name |-> "Error",
   message |-> <<"Failed to fetch JIRA ticket details: ", "JIRA API Error: ", ToString(status)>>,
   status |-> JUndef]

\* the catch of JiraHandler.getJiraTicketDetails: the text returned for an
\* error of the service
ticketErrorText(error, ticketKey) ==
  CASE error.status = JNum(404) ->
         <<"Error: JIRA ticket ", ticketKey, " not found. Please check if the ticket exists and you have permission to view it.">>
    [] error.status \in {JNum(401), JNum(403)} ->
         <<"Error: Authentication failed. Please check your JIRA credentials and permissions.">>
    [] error.status = JNum(400) ->
         <<"Error: Invalid request. Please check if the ticket key \"", ticketKey, "\" is correct.">>
    [] error.status = JNum(500) ->
         <<"Error: JIRA server error. Please try again later.\nDetails: ">> \o error.message
    [] OTHER ->
         <<"Error fetching JIRA ticket: ">> \o error.message
           \o <<"\n\nPlease try again or contact support if the issue persists.">>

\* JiraHandler.getJiraTicketDetails with the credentials at hand and the
\* issue request answered with the given status
JiraHandler_getJiraTicketDetails(ticketKey, status) ==
  IF status = 200
  THEN [kind |-> "return", text |-> <<"JIRA Ticket Details: ", ticketKey>>]
  ELSE [kind |-> "return", text |-> ticketErrorText(ticketHttpError(status), ticketKey)]

\* one call of JiraHandler.getJiraTicketDetails
JiraHandler_getJiraTicketDetailsCall ==
  /\ svcCall = NoCall
  /\ \E status \in UpstreamStatuses, ticketKey \in {"MAN-1", "BUG-4774"} :
       /\ svcCall' = [op |-> "JiraHandler.getJiraTicketDetails", ticketKey |-> ticketKey,
                      status |-> status]
       /\ svcReturn' = JiraHandler_getJiraTicketDetails(ticketKey, status)
  /\ UNCHANGED dispatchVars

\* SentryService.fetchJson (both versions) for one request: node-fetch is
\* given timeout: 30000 and rejects with its own FetchError when the time
\* is up; every error is thrown again as new Error(`${description}: ...`)
SentryService_fetchJson(up) ==
  CASE up = "ok" -> [kind |-> "return", message |-> <<>>]
    [] up = "http" ->
         [kind |-> "Error",
          message |-> <<"Fetching issues", ": ", "Fetching issues", " failed: ">>]
    [] up = "timeout" ->
         [kind |-> "Error", message |-> <<"Fetching issues", ": ", "network timeout at: ">>]
    [] up = "network" ->
         [kind |-> "Error", message |-> <<"Fetching issues", ": ", "fetch failed">>]

\* one request of either service on its own
fetchCall ==
  /\ svcCall = NoCall
  /\ \E up \in JiraFetchOutcomes :
       \/ /\ svcCall' = [op |-> "SentryService.fetchJson", up |-> up]
          /\ svcReturn' = SentryService_fetchJson(up)
       \/ /\ svcCall' = [op |-> "JiraService.getJiraIssueFields", up |-> up]
          /\ svcReturn' = getJiraIssueFields(up)
  /\ UNCHANGED dispatchVars

\* the most issues the upstream returns for one search
MaxIssues == 3

\* SentryHandler.fetchIssues and the end of getIssues (CommonJS) for the
\* request getSentryIssuesList made or failed to make, the upstream
\* answering with the given number of issues: the text begins with the
\* count and ends with the JSON array of the formatted issues (ids 1..n);
\* an error of the service goes to ErrorHandler.handleError, which returns a
\* bare string; the token counts added at the end are left out
fetchIssues(request, issues) ==
  IF request.kind = "request"
  THEN [kind |-> "return", shape |-> "ToolCallResult",
        text |-> <<"Found ", ToString(issues), " issues in organization \"">>,
        issues |-> [i \in 1..issues |-> [id |-> i]]]
  ELSE [kind |-> "return", shape |-> "string",
        text |-> <<"An unexpected error occurred in ", "get_sentry_issues",
                   "params.f is not a function">>,
        issues |-> <<>>]

\* one issue search through SentryHandler.getIssues with project "123" and
\* limit 5, at noon on a host in UTC
searchIssuesCall ==
  /\ svcCall = NoCall
  /\ \E v \in SentryServiceVersions, sp \in OptStr("7d"), issues \in 0..MaxIssues,
        now \in {n \in Nows : n.hour = 12} :
       LET a == [relativeDays |-> JUndef, statsPeriod |-> sp, dateFrom |-> JUndef,
                 dateTo |-> JUndef]
       IN /\ svcCall' = [op |-> "searchIssues", version |-> v, a |-> a,
                         project |-> "123", limit |-> 5, issues |-> issues, now |-> now]
          /\ svcReturn' = fetchIssues(getIssues(v, a, now, 0).request, issues)
  /\ UNCHANGED dispatchVars

\* the fields the edit metadata of a ticket may list, by key and name
KnownFields ==
  {[key |-> "summary", name |-> "Summary"], [key |-> "customfield_1", name |-> "Story Points"]}

\* the most fields one update asks to change, and the updates asked for: the
\* keys of updateFields in their order
MaxUpdateFields == 2

UpdateRequests ==
  {ks \in UNION {[1..n -> {"summary", "Story Points", "bogus"}] : n \in 0..MaxUpdateFields} :
     \A i, j \in 1..Len(ks) : i # j => ks[i] # ks[j]}

\* an update body with every requested field
validFieldsUnchecked(fieldsInfo, updateFields) == updateFields

\* validFields of editJiraTicket: the requested keys that are the key or the
\* name of an essential or custom field of fieldsInfo
validFields(fieldsInfo, updateFields) ==
  LET found(k) == \E f \in fieldsInfo : f.key = k \/ f.name = k
  IN SelectSeq(updateFields, found)

\* JiraService.editJiraTicket: what it returned or threw, the PUT it sent
\* (the keys of the body's fields) if any, and whether the field metadata
\* was at hand; the formatting of the values is left out
editJiraTicket(fieldsInfo, updateFields, upMeta, upFields, upPut) ==
  LET metadata == upMeta = "ok" /\ getFieldMappings(FALSE, upFields).kind = "return"
      valid == validFields(fieldsInfo, updateFields)
      skipped == LET left(k) == \A i \in 1..Len(valid) : valid[i] # k
                 IN SelectSeq(updateFields, left)
  IN IF ~metadata
     THEN [kind |-> "Error", put |-> <<>>, updatedFields |-> <<>>, skippedFields |-> <<>>,
           message |-> <<"Failed to update JIRA ticket: ", "Failed to get JIRA issue fields: ">>]
     ELSE IF valid = <<>>
     THEN [kind |-> "Error", put |-> <<>>, updatedFields |-> <<>>, skippedFields |-> <<>>,
           message |-> <<"Failed to update JIRA ticket: ", "No valid fields found to update. Available fields: ">>]
     ELSE IF upPut # "ok"
     THEN [kind |-> "Error", put |-> <<valid>>, updatedFields |-> <<>>, skippedFields |-> <<>>,
           message |-> IF upPut = "timeout"
                       THEN <<"JIRA API request timed out for ticket: ">>
                       ELSE <<"Failed to update JIRA ticket: ">>]
     ELSE [kind |-> "return", put |-> <<valid>>, updatedFields |-> valid,
           skippedFields |-> skipped, message |-> <<"Successfully updated ">>]

\* one call of JiraService.editJiraTicket
editJiraTicketCall ==
  /\ svcCall = NoCall
  /\ \E fieldsInfo \in SUBSET KnownFields, updateFields \in UpdateRequests,
        upMeta \in JiraFetchOutcomes, upFields \in JiraFetchOutcomes,
        upPut \in JiraFetchOutcomes :
       /\ svcCall' = [op |-> "editJiraTicket", fieldsInfo |-> fieldsInfo,
                      updateFields |-> updateFields, upMeta |-> upMeta,
                      upFields |-> upFields, upPut |-> upPut]
       /\ svcReturn' = editJiraTicket(fieldsInfo, updateFields, upMeta, upFields, upPut)
  /\ UNCHANGED dispatchVars

\* the caller has the value; the next call can be made
Return ==
  /\ svcCall # NoCall
  /\ svcCall' = NoCall
  /\ svcReturn' = NoReturn
  /\ UNCHANGED dispatchVars

NextSvc ==
  \/ getSentryIssueDetailsCall
  \/ JiraService_getJiraTicketDetailsCall
  \/ getSentryIssuesListCall
  \/ getIssuesCall
  \/ JiraHandler_getJiraTicketDetailsCall
  \/ fetchCall
  \/ searchIssuesCall
  \/ editJiraTicketCall
  \/ Return

SpecSvc == InitSvc /\ [][NextSvc]_vars

\* Array.prototype.reverse, slice(0, n) and slice(-n)
Reverse(xs) == [i \in 1..Len(xs) |-> xs[Len(xs) + 1 - i]]

SliceFirst(xs, n) == SubSeq(xs, 1, IF Len(xs) < n THEN Len(xs) ELSE n)

SliceLast(xs, n) == SubSeq(xs, IF Len(xs) < n THEN 1 ELSE Len(xs) + 1 - n, Len(xs))

\* String.prototype.slice(0, n) of a text of the given length: its length
sliceLength(length, n) == IF length < n THEN length ELSE n

\* the stack trace formatIssueDetails makes of the frames of the latest
\* event, and the frames array afterwards: reverse() reverses the array of
\* the event itself
stacktraceOf(frames, checkDeepDetails) ==
  [stacktrace |-> SliceFirst(Reverse(frames), IF checkDeepDetails THEN 20 ELSE 10),
   frames |-> Reverse(frames)]

\* the two versions of JiraFormatter in src/utils/JiraFormatter.js: the first
\* takes deepDetails, the second (line 277 on) does not
JiraFormatterVersions == {"first", "second"}

\* JiraFormatter.getRecentComments with the comments oldest first
getRecentCommentsAscending(comments, limit) ==
  [i \in 1..Len(SliceLast(comments, limit)) |->
     LET c == SliceLast(comments, limit)[i]
         body == IF c.body = 0 THEN 10 ELSE c.body
     IN [created |-> c.created, body |-> IF body > 500 THEN 503 ELSE body,
         fullBody |-> body]]

\* JiraFormatter.getRecentComments: the last limit comments, mapped, the
\* mapped array reversed; a body is the length of its text ('No content' has
\* 10 characters, a cut body 500 and three dots)
getRecentComments(comments, limit) ==
  Reverse([i \in 1..Len(SliceLast(comments, limit)) |->
     LET c == SliceLast(comments, limit)[i]
         body == IF c.body = 0 THEN 10 ELSE c.body
     IN [created |-> c.created, body |-> IF body > 500 THEN 503 ELSE body,
         fullBody |-> body]])

\* JiraFormatter.formatJiraResponse: the description (its length; 'No
\* description available' has 24 characters) and the recent comments
formatJiraResponse(v, data, deepDetails) ==
  LET text == IF data.description = 0 THEN 24 ELSE data.description
      recent == getRecentComments(data.comments, 2)
  IN IF v = "first"
     THEN [description |-> sliceLength(text, IF deepDetails THEN 1000 ELSE 500),
           recentComments |->
             IF deepDetails THEN getRecentComments(data.comments, 5)
             ELSE [i \in 1..Len(recent) |->
                     [recent[i] EXCEPT !.body = sliceLength(recent[i].body, 200)]]]
     ELSE [description |-> text,
           recentComments |-> getRecentComments(data.comments, 5)]

\* the most stack frames of an event, comments of a ticket and formatter
\* calls on the same raw objects
MaxFrames == 3

MaxComments == 6

MaxCalls == 2

\* the lengths of the description texts and of the comment bodies
DescriptionLengths == {0, 500, 501, 1001}

BodyLengths == {0, 250, 600}

\* the raw tickets: the comments as the issue tracker lists them, oldest
\* first, created at 1, 2, ...
RawTickets ==
  {[description |-> d, comments |-> [i \in 1..n |-> [created |-> i, body |-> b]]] :
     d \in DescriptionLengths, n \in 0..MaxComments, b \in BodyLengths}

\* a caller holds a raw event and a raw ticket
InitFmt ==
  /\ InitIdle
  /\ rawEvent \in {[i \in 1..n |-> i] : n \in 0..MaxFrames}
  /\ rawTicket \in RawTickets
  /\ formatCalls = <<>>
  /\ NoCache
  /\ NoServer

\* SentryFormatter.formatIssueDetails on the caller's event
formatIssueDetailsCall ==
  /\ Len(formatCalls) < MaxCalls
  /\ \E checkDeepDetails \in BOOLEAN :
       LET out == stacktraceOf(rawEvent, checkDeepDetails)
       IN /\ formatCalls' =
               Append(formatCalls,
                      [formatter |-> "formatIssueDetails", version |-> "part_008",
                       deepDetails |-> checkDeepDetails,
                       formatted |-> [stacktrace |-> out.stacktrace]])
          /\ rawEvent' = out.frames
  /\ UNCHANGED <<rawTicket, cacheVars, serverVars, callVars>>

\* JiraFormatter.formatJiraResponse on the caller's ticket
formatJiraResponseCall ==
  /\ Len(formatCalls) < MaxCalls
  /\ \E v \in JiraFormatterVersions, deepDetails \in BOOLEAN :
       formatCalls' =
         Append(formatCalls,
                [formatter |-> "formatJiraResponse", version |-> v,
                 deepDetails |-> deepDetails,
                 formatted |-> formatJiraResponse(v, rawTicket, deepDetails)])
  /\ UNCHANGED <<rawEvent, rawTicket, cacheVars, serverVars, callVars>>

NextFmt ==
  \/ formatIssueDetailsCall
  \/ formatJiraResponseCall

SpecFmt == InitFmt /\ [][NextFmt]_vars

\* the most fields the issue tracker lists and the most calls of
\* getFieldMappings on one JiraService instance
MaxFields == 2

MaxInvocations == 3

\* a mapping left with its first field only
mappingOfFirst(fields) == [cached |-> TRUE, ids |-> {id \in 1..fields : id = 1}]

\* this.fieldMappings = {} and the forEach that fills it, which run in one
\* turn of the event loop: the mapping of every listed field
mappingOf(fields) == [cached |-> TRUE, ids |-> 1..fields]

\* a new JiraService instance, no call of getFieldMappings made yet
InitCache ==
  /\ InitIdle
  /\ NoFormatting
  /\ NoServer
  /\ jiraFields \in 0..MaxFields
  /\ fieldMappings = [cached |-> FALSE, ids |-> {}]
  /\ invocations = <<>>

\* getFieldMappings is called: with this.fieldMappings set it returns it,
\* else it requests the fields and waits for the answer
getFieldMappingsStart ==
  /\ Len(invocations) < MaxInvocations
  /\ invocations' =
       Append(invocations,
              IF fieldMappings.cached
              THEN [at |-> "returned", result |-> fieldMappings]
              ELSE [at |-> "await", result |-> fieldMappings])
  /\ UNCHANGED <<jiraFields, fieldMappings, fmtVars, serverVars, callVars>>

\* the answer of GET /field arrives for a waiting call: the call stores the
\* mapping and returns it, or throws what getJiraIssueFields threw
getFieldMappingsResume ==
  /\ \E i \in 1..Len(invocations), up \in JiraFetchOutcomes :
       /\ invocations[i].at = "await"
       /\ IF getJiraIssueFields(up).kind = "return"
          THEN /\ fieldMappings' = mappingOf(jiraFields)
               /\ invocations' =
                    [invocations EXCEPT ![i] = [at |-> "returned", result |-> fieldMappings']]
          ELSE /\ invocations' =
                    [invocations EXCEPT ![i] = [at |-> "threw", result |-> invocations[i].result]]
               /\ UNCHANGED fieldMappings
  /\ UNCHANGED <<jiraFields, fmtVars, serverVars, callVars>>

NextCache ==
  \/ getFieldMappingsStart
  \/ getFieldMappingsResume

SpecCache == InitCache /\ [][NextCache]_vars

\* bufferTime of getValidOAuthToken, in minutes, the most steps of the
\* clock, and the most refreshes of one token
bufferTime == 5

MaxTicks == 2

MaxRefreshes == 2

\* the lifetimes the authorization servers grant, in minutes
ExpiresIn == {5, 10}

\* refreshOAuthToken: the refresh of the token's own service, or no refresh
\* for a record of neither service; the new token is numbered after the
\* old one
refreshOAuthToken(tokenData, granted, expiresIn, now) ==
  IF tokenData.type \in {"sentry", "atlassian"} /\ granted
  THEN [success |-> TRUE, accessToken |-> tokenData.accessToken + 1,
        expiresAt |-> now + expiresIn]
  ELSE [success |-> FALSE, accessToken |-> 0, expiresAt |-> 0]

\* storeSentryOAuthToken: the files after it; a failed write is logged and
\* leaves them as they were
storeSentryOAuthToken(files, accessToken, expiresAt, org, written) ==
  IF written
  THEN [files EXCEPT ![<<"sentry-oauth", org>>] =
          [type |-> "sentry", accessToken |-> accessToken, expiresAt |-> expiresAt,
           org |-> org]]
  ELSE files

\* storeAtlassianOAuthToken, likewise
storeAtlassianOAuthToken(files, accessToken, expiresAt, org, written) ==
  IF written
  THEN [files EXCEPT ![<<"atlassian-oauth", org>>] =
          [type |-> "atlassian", accessToken |-> accessToken, expiresAt |-> expiresAt,
           org |-> org]]
  ELSE files

\* getValidOAuthToken: the token returned (NoFile for null), whether a
\* refresh was made, and the files after the call
getValidOAuthToken(files, tokenData, now, granted, expiresIn, written) ==
  IF now + bufferTime >= tokenData.expiresAt
  THEN LET refreshResult == refreshOAuthToken(tokenData, granted, expiresIn, now)
       IN IF refreshResult.success
          THEN [files |-> storeSentryOAuthToken(files, refreshResult.accessToken,
                                                 refreshResult.expiresAt, tokenData.org, written),
                refreshed |-> TRUE,
                token |-> [tokenData EXCEPT !.accessToken = refreshResult.accessToken,
                                            !.expiresAt = refreshResult.expiresAt]]
          ELSE [files |-> files, refreshed |-> FALSE, token |-> NoFile]
  ELSE [files |-> files, refreshed |-> FALSE, token |-> tokenData]

\* getSentryOAuthToken and getAtlassianOAuthToken: null with no file of
\* that service and org, the valid token of the file otherwise
getOAuthToken(files, service, org, now, granted, expiresIn, written) ==
  IF files[<<service, org>>] = NoFile
  THEN [files |-> files, refreshed |-> FALSE, token |-> NoFile]
  ELSE getValidOAuthToken(files, files[<<service, org>>], now, granted, expiresIn, written)

\* the token storage is in use from the start: no dispatcher, service,
\* formatter or cache is running beside it
InitStorage ==
  /\ InitIdle
  /\ NoFormatting
  /\ NoCache
  /\ NoTokens
  /\ NoTransport

\* the operator authorizes a service: its first token is stored
storeOAuthTokenCall ==
  /\ \E service \in {"sentry-oauth", "atlassian-oauth"}, org \in Orgs,
        expiresIn \in ExpiresIn, written \in BOOLEAN :
       /\ tokenFiles' =
            IF service = "sentry-oauth"
            THEN storeSentryOAuthToken(tokenFiles, 0, tokenClock + expiresIn, org, written)
            ELSE storeAtlassianOAuthToken(tokenFiles, 0, tokenClock + expiresIn, org, written)
       /\ tokenCall' = [op |-> "store", service |-> service, org |-> org,
                        before |-> tokenFiles, refreshed |-> FALSE, token |-> NoFile]
  /\ UNCHANGED <<tokenClock, transportVars, fmtVars, cacheVars, callVars>>

\* one call of getSentryOAuthToken or getAtlassianOAuthToken
getOAuthTokenCall ==
  /\ \E service \in {"sentry-oauth", "atlassian-oauth"}, org \in Orgs,
        granted \in BOOLEAN, expiresIn \in ExpiresIn, written \in BOOLEAN :
       /\ granted => tokenFiles[<<service, org>>].accessToken < MaxRefreshes
       /\ LET got == getOAuthToken(tokenFiles, service, org, tokenClock, granted, expiresIn,
                                   written)
          IN /\ tokenFiles' = got.files
             /\ tokenCall' = [op |-> "get", service |-> service, org |-> org,
                              before |-> tokenFiles, refreshed |-> got.refreshed,
                              token |-> got.token]
  /\ UNCHANGED <<tokenClock, transportVars, fmtVars, cacheVars, callVars>>

\* five minutes pass
Tick ==
  /\ tokenClock < bufferTime * MaxTicks
  /\ tokenClock' = tokenClock + bufferTime
  /\ UNCHANGED <<tokenFiles, tokenCall, transportVars, fmtVars, cacheVars, callVars>>

NextStorage ==
  \/ storeOAuthTokenCall
  \/ getOAuthTokenCall
  \/ Tick

SpecStorage == InitStorage /\ [][NextStorage]_vars

\* the most SSE connections accepted in one run
MaxConnections == 3

\* whether a write goes to a response that is open or to one that was closed
wroteTo(c) == IF connections[c].open THEN "open" ELSE "closed"

\* the HTTP transport is listening from the start, with no session
InitTransport ==
  /\ InitIdle
  /\ NoFormatting
  /\ NoCache
  /\ NoTokens
  /\ NoTransport

\* GET /mcp/stream/:sessionId: the response is stored under the id, the
\* connected event is written, the close handler and the ping timer are set
StreamConnect ==
  /\ listening
  /\ Len(connections) < MaxConnections
  /\ \E id \in SessionIds :
       LET c == Len(connections) + 1
       IN /\ connections' = Append(connections, [id |-> id, open |-> TRUE, pinging |-> TRUE])
          /\ sessions' = [i \in DOMAIN sessions \cup {id} |-> IF i = id THEN c ELSE sessions[i]]
          /\ served' = [route |-> "GET /mcp/stream", status |-> 200, wrote |-> "open"]
  /\ UNCHANGED <<posts, listening, storageVars, fmtVars, cacheVars, callVars>>

\* the 'close' event of a connection's request: the id is deleted from the
\* table, whichever response is stored under it
StreamClose ==
  /\ \E c \in 1..Len(connections) :
       /\ connections[c].open
       /\ connections' = [connections EXCEPT ![c].open = FALSE]
       /\ sessions' = [i \in DOMAIN sessions \ {connections[c].id} |-> sessions[i]]
       /\ served' = [route |-> "close", status |-> 0, wrote |-> "nothing"]
  /\ UNCHANGED <<posts, listening, storageVars, fmtVars, cacheVars, callVars>>

\* the ping timer of a connection fires: a ping on its own response while
\* its id is in the table, and the timer is cleared otherwise
StreamPing ==
  /\ \E c \in 1..Len(connections) :
       /\ connections[c].pinging
       /\ IF connections[c].id \in DOMAIN sessions
          THEN /\ served' = [route |-> "ping", status |-> 0, wrote |-> wroteTo(c)]
               /\ UNCHANGED connections
          ELSE /\ connections' = [connections EXCEPT ![c].pinging = FALSE]
               /\ served' = [route |-> "ping", status |-> 0, wrote |-> "nothing"]
  /\ UNCHANGED <<sessions, posts, listening, storageVars, fmtVars, cacheVars, callVars>>

\* POST /mcp/stream/:sessionId up to the await: 404 without a session of
\* that id, and the session got from the table is held otherwise
StreamPostStart ==
  /\ listening
  /\ \E id \in SessionIds :
       IF id \notin DOMAIN sessions
       THEN /\ served' = [route |-> "POST /mcp/stream", status |-> 404, wrote |-> "nothing"]
            /\ UNCHANGED posts
       ELSE \E p \in 1..MaxPosts :
              /\ posts[p] = NoPost
              /\ posts' = [posts EXCEPT ![p] = [id |-> id, connection |-> sessions[id]]]
              /\ served' = [route |-> "POST /mcp/stream", status |-> 0, wrote |-> "nothing"]
  /\ UNCHANGED <<sessions, connections, listening, storageVars, fmtVars, cacheVars, callVars>>

\* the rest of the POST: processRequest has returned or thrown, the result
\* or the error is written to the response of the session held, and the
\* request is acknowledged with 200 or answered with 500
StreamPostFinish ==
  /\ \E p \in 1..MaxPosts, threw \in BOOLEAN, notification \in BOOLEAN :
       /\ posts[p] # NoPost
       /\ posts' = [posts EXCEPT ![p] = NoPost]
       /\ served' = [route |-> "POST /mcp/stream", status |-> IF threw THEN 500 ELSE 200,
                     wrote |-> IF ~threw /\ notification THEN "nothing"
                               ELSE wroteTo(posts[p].connection)]
  /\ UNCHANGED <<sessions, connections, listening, storageVars, fmtVars, cacheVars, callVars>>

\* stop(): the responses in the table are ended and the table is cleared;
\* the server accepts nothing more
StreamStop ==
  /\ listening
  /\ listening' = FALSE
  /\ connections' = [c \in 1..Len(connections) |->
                       IF \E id \in DOMAIN sessions : sessions[id] = c
                       THEN [connections[c] EXCEPT !.open = FALSE]
                       ELSE connections[c]]
  /\ sessions' = [id \in {} |-> 0]
  /\ served' = [route |-> "stop", status |-> 0, wrote |-> "nothing"]
  /\ UNCHANGED <<posts, storageVars, fmtVars, cacheVars, callVars>>

NextTransport ==
  \/ StreamConnect
  \/ StreamClose
  \/ StreamPing
  \/ StreamPostStart
  \/ StreamPostFinish
  \/ StreamStop

SpecTransport == InitTransport /\ [][NextTransport]_vars

(***************************************************************************)
(* The claims.  Every formula is about the state in which the request has  *)
(* been answered.                                                          *)
(***************************************************************************)
Responded == pc = "responded"

WellFormed == req.jsonrpc = JStr("2.0") /\ Truthy(req.method)

IsToolsCall == WellFormed /\ req.method = JStr("tools/call")

Parts(seq) == {seq[i] : i \in DOMAIN seq}

\* the response shows a part of the message of the error the handler threw
Leaks ==
  Parts(outcome.message)
    \cap (Parts(resp.message) \cup Parts(resp.data) \cup Parts(resp.result.text)) # {}

\* C1: a request whose jsonrpc is absent or not "2.0" is answered 400 with
\* code -32600 whatever its method is, and one with jsonrpc "2.0" and no
\* method is answered 400 with code -32600; in neither case does any
\* initialize, tools/list or tools/call step run.
C1_MalformedEnvelopeRejected ==
  (Responded /\ ~WellFormed) =>
     /\ resp.status = 400
     /\ resp.kind = "error"
     /\ resp.code = InvalidRequest
     /\ ran = {}

\* C2: a well-formed request whose method is none of the four known methods
\* is answered 404 with code -32601.
C2_UnknownMethodIs404 ==
  (Responded /\ WellFormed
     /\ req.method \notin {JStr("initialize"), JStr("notifications/initialized"),
                           JStr("tools/list"), JStr("tools/call")}) =>
     /\ resp.status = 404
     /\ resp.kind = "error"
     /\ resp.code = MethodNotFound

\* C3: every response body for a request that carries an id, a result and an
\* error alike, carries that id unchanged, whether the id is a string, a
\* number or null.
C3_IdEchoed ==
  (Responded /\ req.id # JUndef /\ resp.kind \in {"result", "error"}) => resp.id = req.id

\* C4: when the tool handler of a tools/call throws an error that is not an
\* McpError, the response is 500 with code -32603 and the message "Internal
\* server error", and outside development mode no part of the thrown error's
\* message is in the response.
C4_InternalErrorIsGeneric ==
  (Responded /\ IsToolsCall /\ outcome.kind = "Error") =>
     /\ resp.status = 500
     /\ resp.kind = "error"
     /\ resp.code = InternalError
     /\ resp.message = <<"Internal server error">>
     /\ (nodeEnv # "development" => ~Leaks)

C6_NothingPropagates ==
  (Responded /\ outcome.kind \in {"McpError", "Error"}) =>
     /\ thrown.kind = "none"
     /\ resp.kind = "error"

\* C7: a tools/call whose name matches no registered tool is answered with
\* an error of code -32601, and neither a tool handler nor an upstream
\* request runs for it.
C7_UnknownToolIsMethodNotFound ==
  (Responded /\ IsToolsCall /\ req.name # "" /\ req.name \notin TOOL_DEFINITIONS) =>
     /\ resp.kind = "error"
     /\ resp.code = MethodNotFound
     /\ "handler" \notin ran
     /\ "upstream" \notin ran

\* no credential header, no environment variable, no stored token
ZeroCredentials == req.headers = NoHeaders /\ env = NoEnv /\ store = {}

\* C8: tools/list with no credential header, no environment variable and no
\* stored token is answered 200 with the tool catalog the deployment allows
\* (every tool in the Netlify deployments, none in the MCPServer deployment,
\* which hides the tools from an unauthenticated client), never with an error.
C8_ToolsListNeedsNoCredentials ==
  (Responded /\ WellFormed /\ req.method = JStr("tools/list") /\ ZeroCredentials) =>
     /\ resp.status = 200
     /\ resp.kind = "result"
     /\ resp.result.shape = "tools"
     /\ resp.result.tools = IF deployment = "server" THEN {} ELSE TOOL_DEFINITIONS
     /\ thrown.kind = "none"

\* C8, its case: the MCPServer deployment, whose listTools resolves the
\* credentials, answered a tools/list made with no credentials at all.
C8_Witness ==
  /\ Responded
  /\ deployment = "server"
  /\ WellFormed
  /\ req.method = JStr("tools/list")
  /\ ZeroCredentials
  /\ "extractCredentials" \in ran
  /\ resp.status = 200

\* the messages of the missing-credential errors
CredentialMessages ==
  {createSentryService(NoCredentials, NoEnv).message}
  \cup {createJiraService([NoCredentials EXCEPT ![f] = "x", ![g] = "x"], NoEnv).message :
          f, g \in {"jira.token", "jira.domain", "jira.email"}}

\* the tool of the request needs a service for which a credential is neither
\* resolved nor in the environment
CredentialMissing ==
  \/ /\ req.name = "get_sentry_organizations"
     /\ cred["sentry.token"] = ""
     /\ env["SENTRY_TOKEN"] = ""
  \/ /\ req.name = "get_jira_ticket_details"
     /\ req.args = "ticketKey"
     /\ \/ cred["jira.token"] = "" /\ env["JIRA_ACCESS_TOKEN"] = ""
        \/ cred["jira.domain"] = "" /\ env["ATLASSIAN_DOMAIN"] = ""
        \/ cred["jira.email"] = "" /\ env["JIRA_USER_EMAIL"] = ""

\* C9: a tools/call that needs a service whose credential is missing is
\* answered with an error of code -32602 whose message names what would
\* supply the credential, and no upstream request is sent; resolving the
\* credentials raised nothing.
C9_MissingCredentialIsInvalidParams ==
  (Responded /\ IsToolsCall /\ CredentialMissing) =>
     /\ "extractCredentials" \in ran
     /\ resp.kind = "error"
     /\ resp.code = InvalidParams
     /\ resp.message \in CredentialMessages
     /\ "upstream" \notin ran

\* the environment variable each resolver reads for a field, first choice
\* first
EnvOf(d, f) ==
  CASE f = "sentry.host" -> <<"SENTRY_HOST">>
    [] f = "sentry.organization" ->
         IF d = "esm" THEN <<"SENTRY_ORGANIZATION">> ELSE <<"SENTRY_ORG", "SENTRY_ORGANIZATION">>
    [] f = "sentry.token" -> <<"SENTRY_TOKEN">>
    [] f = "jira.domain" -> <<"ATLASSIAN_DOMAIN">>
    [] f = "jira.token" -> IF d = "esm" THEN <<"JIRA_ACCESS_TOKEN">> ELSE <<"JIRA_TOKEN">>
    [] f = "jira.email" -> IF d = "esm" THEN <<"JIRA_USER_EMAIL">> ELSE <<"JIRA_EMAIL">>

\* the first non-empty value among the variables of a field, "" if none
EnvValue(d, f) ==
  LET vs == EnvOf(d, f)
  IN IF env[vs[1]] # "" THEN env[vs[1]]
     ELSE IF Len(vs) > 1 THEN env[vs[2]] ELSE ""

\* the service a field belongs to
ServiceOf(f) ==
  IF f \in {"sentry.host", "sentry.organization", "sentry.token"} THEN "sentry"
  ELSE "atlassian"

Resolved == Responded /\ "extractCredentials" \in ran

C11_NotificationHasNoBody ==
  (Responded /\ WellFormed /\ req.method = JStr("notifications/initialized")) =>
     /\ resp.status = 200
     /\ resp.kind = "null"
     /\ resp = NullResponse
     /\ thrown.kind = "none"
     /\ ran = {"initialized"}

\* C11, its case: a notification that carries an id was answered with the
\* null body.
C11_Witness ==
  /\ Responded
  /\ WellFormed
  /\ req.method = JStr("notifications/initialized")
  /\ req.id = JNum(7)
  /\ resp.kind = "null"
  /\ resp.status = 200

\* C12: every tools/call response of status 200 carries a result of the
\* ToolCallResult shape {content: [{type: "text", text}]}, whatever the tool
\* and also when the handler caught an error itself and reported it as a
\* success.
C12_ResultIsToolCallResult ==
  (Responded /\ IsToolsCall /\ resp.status = 200) =>
     /\ resp.kind = "result"
     /\ resp.result.shape = "ToolCallResult"

\* the outcome entries of the log: success or failure
OutcomeEntries == {i \in DOMAIN log : log[i].event \in {"success", "failure"}}

\* C13: every tool invocation logs a start entry first and then exactly one
\* outcome entry, success or failure, that carries the elapsed duration, on
\* every path: a result, an McpError, an unexpected error, an unknown tool.
C13_StartThenOneOutcomeWithDuration ==
  (Responded /\ IsToolsCall /\ req.name # "") =>
     /\ log # <<>>
     /\ log[1].event = "start"
     /\ Cardinality(OutcomeEntries) = 1
     /\ \A i \in OutcomeEntries :
          /\ i > 1
          /\ log[i].elapsed
          /\ log[i].event = "success" <=> resp.kind = "result"

C15_FieldMappingFailureTolerated ==
  (svcCall.op = "JiraService.getJiraTicketDetails"
     /\ svcCall.upIssue = "ok" /\ ~svcCall.cached /\ svcCall.upFields # "ok") =>
     /\ svcReturn.kind = "return"
     /\ ~svcReturn.names

\* the Monday of the calendar week (Monday to Sunday, UTC) before the week
\* of a day
PrecedingMonday(day) == day - ((getUTCDay(day) + 6) % 7) - 7

NoDatesGiven ==
  /\ svcCall.op = "getIssues"
  /\ ~Truthy(svcCall.a.relativeDays)
  /\ svcCall.a.dateFrom = JUndef
  /\ svcCall.a.dateTo = JUndef
  /\ svcCall.a.statsPeriod = JUndef

\* C16: getIssues called with no dateFrom, dateTo and statsPeriod sends
\* start = Monday 00:00:00 and end = Sunday 23:59:59 of the calendar week
\* before the current one in UTC, whatever the day and the host's time zone
C16_DefaultRangeIsPrecedingWeek ==
  NoDatesGiven =>
    /\ svcReturn.request.kind = "request"
    /\ svcReturn.request.start =
         <<DateStr(PrecedingMonday(svcCall.now.day), 0, "00:00", "", FALSE)>>
    /\ svcReturn.request.end =
         <<DateStr(PrecedingMonday(svcCall.now.day) + 6, 23, "59:59", "", FALSE)>>

\* C17: a call of getIssues with statsPeriod sends the statsPeriod parameter
\* and neither start nor end, whatever dateFrom, dateTo and relativeDays it
\* also gives
C17_StatsPeriodSuppressesDates ==
  (svcCall.op = "getIssues" /\ Truthy(svcCall.a.statsPeriod)) =>
    /\ svcReturn.request.kind = "request"
    /\ svcReturn.request.statsPeriod = <<svcCall.a.statsPeriod.s>>
    /\ svcReturn.request.start = <<>>
    /\ svcReturn.request.end = <<>>

C17_Witness ==
  /\ svcCall.op = "getIssues"
  /\ svcCall.version = "SentryService.js"
  /\ Truthy(svcCall.a.statsPeriod)
  /\ Truthy(svcCall.a.relativeDays)
  /\ svcCall.a.dateFrom = CallerDateFrom
  /\ svcCall.a.dateTo = CallerDateTo
  /\ svcReturn.request.statsPeriod = <<"7d">>
  /\ svcReturn.issueOptions.dateFrom = CallerDateFrom

DefaultClause == Clause("is", "unresolved")

NoFilterFields ==
  /\ svcCall.options.issue = JUndef
  /\ svcCall.options.excludeErrorType = JUndef
  /\ svcCall.options.errorMessage = JUndef

OwnParameters(filter) == [i \in 1..Len(filter.v) |-> <<filter.v[i]>>]

\* C19: in every request getSentryIssuesList sends, each of project,
\* environment, collapse and expand, given as one value or as an array, has
\* one parameter for each of its values, none joined and none left out
C19_FiltersRepeatedNotDropped ==
  (svcCall.op = "getSentryIssuesList" /\ svcReturn.kind = "request") =>
    /\ svcReturn.environment = OwnParameters(svcCall.options.environment)
    /\ svcReturn.project =
         [i \in 1..Len(svcCall.options.project.v) |->
            <<ToString(svcCall.options.project.v[i])>>]
    /\ svcReturn.collapse = OwnParameters(svcCall.options.collapse)
    /\ svcReturn.expand = OwnParameters(svcCall.options.expand)

RelativeDaysGiven ==
  /\ svcCall.op = "getIssues"
  /\ Truthy(svcCall.a.relativeDays)
  /\ svcCall.a.statsPeriod = JUndef

\* the current day of a call: the day in UTC or the day on the host's clock
CurrentDays ==
  {svcCall.now.day, (svcCall.now.day * 24 + svcCall.now.hour - svcCall.offset) \div 24}

\* C20: with relativeDays = N and no statsPeriod, getIssues hands the service
\* dateFrom = <day N days before today>T00:00:00 and dateTo = <today>T23:59:59,
\* written in the format the tool declares for dates (YYYY-MM-DDTHH:MM:SS)
C20_RelativeDaysRange ==
  RelativeDaysGiven =>
    \E today \in CurrentDays :
      /\ svcReturn.issueOptions.dateFrom =
           DateStr(today - svcCall.a.relativeDays.n, 0, "00:00", "", FALSE)
      /\ svcReturn.issueOptions.dateTo = DateStr(today, 23, "59:59", "", FALSE)

\* C21: two calls of a formatter with the same arguments on the same raw
\* object give the same output
C21_FormattersArePure ==
  \A i, j \in 1..Len(formatCalls) :
    (/\ formatCalls[i].formatter = formatCalls[j].formatter
     /\ formatCalls[i].version = formatCalls[j].version
     /\ formatCalls[i].deepDetails = formatCalls[j].deepDetails)
    => formatCalls[i].formatted = formatCalls[j].formatted

\* when each comment of a list was created
CreatedOf(comments) == [i \in 1..Len(comments) |-> comments[i].created]

\* the calls of the formatJiraResponse that takes deepDetails
TicketCalls ==
  {i \in 1..Len(formatCalls) :
     formatCalls[i].formatter = "formatJiraResponse" /\ formatCalls[i].version = "first"}

\* the number of comments kept in standard and in deep mode
RecentLimit(deepDetails) == IF deepDetails THEN 5 ELSE 2

C27_DescriptionCapped ==
  \A i \in 1..Len(formatCalls) :
    formatCalls[i].formatter = "formatJiraResponse" =>
      /\ ~formatCalls[i].deepDetails => formatCalls[i].formatted.description <= 500
      /\ \A j \in 1..Len(formatCalls) :
           (/\ formatCalls[j].formatter = "formatJiraResponse"
            /\ formatCalls[j].version = formatCalls[i].version
            /\ formatCalls[i].deepDetails
            /\ ~formatCalls[j].deepDetails
            /\ rawTicket.description > 1000)
           => formatCalls[i].formatted.description > formatCalls[j].formatted.description

\* C23: a ticket-detail call whose issue request is answered 404 returns the
\* handler's "not found" message for that ticket, chosen by the status of the
\* answer
C23_NotFoundIsRecognised ==
  (svcCall.op = "JiraHandler.getJiraTicketDetails" /\ svcCall.status = 404) =>
    /\ svcReturn.kind = "return"
    /\ svcReturn.text =
         <<"Error: JIRA ticket ", svcCall.ticketKey, " not found. Please check if the ticket exists and you have permission to view it.">>

\* the message parts that say "timed out"
TimedOutParts ==
  {"JIRA API request timed out after 15 seconds",
   "JIRA API request timed out after 15 seconds for ticket: "}

UpstreamTimedOut ==
  \/ svcCall.op \in {"SentryService.fetchJson", "JiraService.getJiraIssueFields"}
       /\ svcCall.up = "timeout"
  \/ svcCall.op = "JiraService.getJiraTicketDetails" /\ svcCall.upIssue = "timeout"

UpstreamFailedOtherwise ==
  \/ svcCall.op \in {"SentryService.fetchJson", "JiraService.getJiraIssueFields"}
       /\ svcCall.up \in {"http", "network"}
  \/ svcCall.op = "JiraService.getJiraTicketDetails"
       /\ svcCall.upIssue \in {"http", "network"}

\* C24: a request to either service that exceeds its timeout fails with an
\* error whose message says "timed out", and no other failure of the request
\* says so
C24_TimeoutNamesTimedOut ==
  /\ UpstreamTimedOut =>
       /\ svcReturn.kind = "Error"
       /\ Parts(svcReturn.message) \cap TimedOutParts # {}
  /\ UpstreamFailedOtherwise =>
       /\ svcReturn.kind = "Error"
       /\ Parts(svcReturn.message) \cap TimedOutParts = {}

\* the mapping one call alone produces
CompleteMapping == [cached |-> TRUE, ids |-> 1..jiraFields]

\* C25: however the calls of getFieldMappings on one instance overlap, every
\* call that returns returns the complete mapping, and the cache holds
\* nothing or the complete mapping
C25_CacheWriteIsRaceFree ==
  /\ fieldMappings.cached => fieldMappings = CompleteMapping
  /\ \A i \in 1..Len(invocations) :
       invocations[i].at = "returned" => invocations[i].result = CompleteMapping

\* two calls overlapped, both fetched and both returned
C25_Witness ==
  /\ jiraFields = 2
  /\ Len(invocations) = 3
  /\ invocations[1].at = "returned"
  /\ invocations[2].at = "returned"
  /\ invocations[3].at = "await"
  /\ fieldMappings = CompleteMapping

\* C26: an issue search with project "123" and limit 5 for which the
\* upstream has 3 issues returns a tool result whose text says "Found 3
\* issues" and lists 3 formatted issues, one for each upstream issue
C26_FoundThreeIssues ==
  (/\ svcCall.op = "searchIssues"
   /\ svcCall.a.statsPeriod = JUndef
   /\ svcCall.issues = 3) =>
    /\ svcReturn.shape = "ToolCallResult"
    /\ SubSeq(svcReturn.text, 1, 2) = <<"Found ", "3">>
    /\ Len(svcReturn.issues) = 3

\* the requested keys that are the key or the name of a known editable field
MatchedKeys ==
  {k \in Parts(svcCall.updateFields) :
     \E f \in svcCall.fieldsInfo : k \in {f.key, f.name}}

\* C28: editJiraTicket sends a PUT only with the field metadata fetched and
\* a requested field matched; the body holds exactly the matched fields; the
\* unmatched ones are never sent and are the skippedFields of the result;
\* with no field matched no PUT is sent
C28_UpdateSendsMatchedFieldsOnly ==
  svcCall.op = "editJiraTicket" =>
    /\ svcReturn.put # <<>> =>
         /\ svcCall.upMeta = "ok" /\ svcCall.upFields = "ok"
         /\ MatchedKeys # {}
         /\ Parts(svcReturn.put[1]) = MatchedKeys
    /\ MatchedKeys = {} => svcReturn.put = <<>>
    /\ svcReturn.kind = "return" =>
         /\ svcReturn.put # <<>>
         /\ Parts(svcReturn.skippedFields) = Parts(svcCall.updateFields) \ MatchedKeys
         /\ Parts(svcReturn.updatedFields) = MatchedKeys

C28_Witness ==
  /\ svcCall.op = "editJiraTicket"
  /\ svcCall.updateFields = <<"Story Points", "bogus">>
  /\ svcCall.fieldsInfo = KnownFields
  /\ svcReturn.kind = "return"
  /\ svcReturn.put = << <<"Story Points">> >>
  /\ svcReturn.skippedFields = <<"bogus">>

\* the token files of a service, before the last call and after it
FilesOf(files, service) == [org \in Orgs |-> files[<<service, org>>]]

\* C29: a refresh updates only the stored record of the token's own
\* service: refreshing an Atlassian token leaves the stored Sentry tokens as
\* they were, and refreshing a Sentry token leaves the Atlassian ones
C29_RefreshKeepsOtherService ==
  (tokenCall.op = "get" /\ tokenCall.refreshed) =>
    /\ tokenCall.service = "atlassian-oauth" =>
         FilesOf(tokenFiles, "sentry-oauth") = FilesOf(tokenCall.before, "sentry-oauth")
    /\ tokenCall.service = "sentry-oauth" =>
         FilesOf(tokenFiles, "atlassian-oauth") = FilesOf(tokenCall.before, "atlassian-oauth")

\* the session ids under which an SSE connection is open
OpenIds == {connections[c].id : c \in {d \in 1..Len(connections) : connections[d].open}}

\* C30: a stream session id is in the session table if and only if an SSE
\* connection opened under that id is open, whatever the interleaving of
\* connects, disconnects and posted requests
C30_TableIsTheOpenSessions ==
  DOMAIN sessions = OpenIds

=============================================================================
